---- MODULE Spec2Model ----
(***************************************************************************)
(* widdly: the TiddlerStore contract (Get / All / Put / Delete /           *)
(* SetMaxHistory) as implemented by the three backends flatFile, bbolt     *)
(* and sqlite, driven through the store.Tiddler values that the HTTP       *)
(* handler putTiddler builds.                                              *)
(*                                                                         *)
(* Strings that the code inspects byte by byte (titles, bucket keys, file  *)
(* names) are sequences of one-character strings.  A Go value that may be  *)
(* nil ([]byte, map) is the empty tuple when nil and a one-element tuple   *)
(* otherwise.  JSON bytes of an object are the sequence of its members in  *)
(* the sorted order json.Marshal emits for a map.                          *)
(***************************************************************************)
EXTENDS Integers, Sequences, FiniteSets, TLC

VARIABLES
  backendlist, \* package store's registry: lower-case type name -> TiddlerBackend
  opened,    \* the constructor calls store.Open has made, in order
  backend,   \* which TiddlerStore implementation store.Open returned
  maxRev,    \* its maxRev field
  tiddlers,  \* current values: bucket "tiddler" / directory tiddlers / table tiddler
  history,   \* bucket / directory / table of history entries
  last,      \* the most recent call and what it returned
  supplied,  \* per title, the Js of the latest Put if no Delete followed it
  removed,   \* per title without a current value, the revision its last Delete
             \* removed (0 when the title was never written)
  titles,    \* the titles the client reads and writes
  kinds,     \* the kinds of document the client puts
  config,    \* how often main has started the server on this data source, and
             \* the -rev flag of the latest start
  procs,     \* per request goroutine, the call it is executing: the position
             \* in the handler, the locals, and what the call returned
  txlog,     \* bookkeeping of the committed writes: the revisions assigned by
             \* the Puts since the last Delete, the number of Deletes, and
             \* the metadata/body pairs written by one Put each
  clients,   \* api.Sess.clients: session id -> *Store (expiry t, val["uid"])
  now,       \* the wall clock, in units of SessionTimeout
  cleaner,   \* the goroutine Session.cleaner: its position and its locals
  index,     \* the file index.html
  answer     \* the HTTP request served last and the response written to it

\* the state of package api
web == <<clients, now, cleaner, index, answer>>

\* the state of package store and of the requests that reach it
storevars == <<backendlist, opened, backend, maxRev, tiddlers, history, last, supplied, removed,
               titles, kinds, config, procs, txlog>>

vars == <<storevars, web>>

(* ------------------------------ bounds --------------------------------- *)

\* Put is not called once it would return a revision above MaxRevision.
MaxRevision == 4

\* The -rev flag handed to SetMaxHistory is -1, 0 or one of 1..MaxHistory.
MaxHistory == 1

\* The server is restarted on its data source at most MaxRestarts times.
MaxRestarts == 2

\* The request goroutines make at most MaxCalls calls in total.
MaxCalls == 3

\* store.Open is called at most MaxOpens times.
MaxOpens == 2

\* The clock is followed for MaxTime ticks.
MaxTime == 2

(* ------------------------- optional Go values -------------------------- *)

Nil == <<>>

Some(x) == <<x>>

IsNil(o) == Len(o) = 0

Val(o) == o[1]

(* ------------------------------ strings -------------------------------- *)

Digits == <<"0", "1", "2", "3", "4", "5", "6", "7", "8", "9">>

IsDigit(c) == \E d \in 1..10 : Digits[d] = c

DigitVal(c) == (CHOOSE d \in 1..10 : Digits[d] = c) - 1

RECURSIVE Itoa(_)
\* fmt.Sprintf("%d", n) for n >= 0
Itoa(n) == IF n < 10 THEN <<Digits[n + 1]>>
           ELSE Itoa(n \div 10) \o <<Digits[(n % 10) + 1]>>

RECURSIVE DigitsVal(_)
DigitsVal(s) == IF Len(s) = 0 THEN 0
                ELSE 10 * DigitsVal(SubSeq(s, 1, Len(s) - 1)) + DigitVal(s[Len(s)])

\* strconv.ParseInt(s, 10, 64) with the error dropped: 0 when s is no number
ParseInt(s) == IF Len(s) > 0 /\ \A i \in 1..Len(s) : IsDigit(s[i])
               THEN DigitsVal(s) ELSE 0

HasPrefix(s, p) == Len(s) >= Len(p) /\ SubSeq(s, 1, Len(p)) = p

\* bytes.LastIndexByte, 1-based; 0 when c does not occur
LastIndexByte(s, c) == IF \E i \in 1..Len(s) : s[i] = c
                       THEN CHOOSE i \in 1..Len(s) :
                              s[i] = c /\ \A j \in (i + 1)..Len(s) : s[j] # c
                       ELSE 0

SysPrefix == <<"$", ":", "/">>

MetaKeySuffix == <<"|", "1">>

TextKeySuffix == <<"|", "2">>

MetaExt == <<".", "m", "e", "t", "a">>

TidExt == <<".", "t", "i", "d">>

\* "%s#%d"
HistoryName(key, rev) == key \o <<"#">> \o Itoa(rev)

\* the bytes that occur in titles, bucket keys and file names, in byte order
Alphabet == <<"#", "$", ".", "/", "0", "1", "2", "3", "4", "5", "6", "7", "8",
              "9", ":", "_", "a", "d", "e", "i", "m", "s", "t", "|">>

Ord(c) == CHOOSE i \in 1..Len(Alphabet) : Alphabet[i] = c

\* bytes.Compare(s, t) < 0
Less(s, t) ==
  \E i \in 1..Len(t) :
    /\ i - 1 <= Len(s)
    /\ \A j \in 1..(i - 1) : s[j] = t[j]
    /\ (i > Len(s) \/ Ord(s[i]) < Ord(t[i]))

RECURSIVE SortedNames(_)
\* the names in S in byte order: the order a bolt cursor and filepath.Walk
\* visit them in
SortedNames(S) ==
  IF S = {} THEN <<>>
  ELSE LET m == CHOOSE x \in S : \A y \in S \ {x} : Less(x, y)
       IN  <<m>> \o SortedNames(S \ {m})

HasSuffix(s, p) ==
  Len(s) >= Len(p) /\ SubSeq(s, Len(s) - Len(p) + 1, Len(s)) = p

(* ------------------------------- JSON ---------------------------------- *)

\* member names in the byte order json.Marshal sorts map keys by
FieldOrder == <<"bag", "fields", "revision", "tags", "text", "title">>

\* json.Marshal(map[string]interface{})
Marshal(js) ==
  LET names == SelectSeq(FieldOrder, LAMBDA n : n \in DOMAIN js)
  IN  [i \in 1..Len(names) |-> <<names[i], js[names[i]]>>]

\* json.Unmarshal(data, &map)
Unmarshal(data) ==
  [n \in {data[i][1] : i \in DOMAIN data} |->
     data[CHOOSE i \in DOMAIN data : data[i][1] = n][2]]

\* json.Unmarshal(data, &v) returns nil: the bytes are a complete JSON object,
\* neither empty nor cut off inside a member
Parses(data) ==
  Len(data) > 0 /\ \A i \in 1..Len(data) : Len(data[i]) = 2

\* json.Unmarshal(data, &struct{ Revision int }) on well-formed JSON:
\* the revision member, 0 (the zero value) when there is none
RevisionOf(data) ==
  LET js == Unmarshal(data)
  IN  IF "revision" \in DOMAIN js THEN js["revision"] ELSE 0

\* m with member n set to v (m[n] = v on a Go map)
SetField(m, n, v) == [x \in DOMAIN m \cup {n} |-> IF x = n THEN v ELSE m[x]]

\* delete(m, n)
DelField(m, n) == [x \in DOMAIN m \ {n} |-> m[x]]

\* text, _ := m["text"].(string)
TextOf(m) == IF "text" \in DOMAIN m THEN m["text"] ELSE ""

\* the tag of global macros
MacroTag == "$:/tags/Macro"

\* the title that is spelled like the tag
MacroTitle == <<"$", ":", "/", "t", "a", "g", "s", "/", "M", "a", "c", "r", "o">>

\* bytes.Contains(meta, []byte(`"$:/tags/Macro"`)) on the JSON bytes of a
\* tiddler: some string of the document, quotes included, is the tag
ContainsMacro(meta) ==
  LET js == Unmarshal(meta)
      IsTag(n) == n \in DOMAIN js /\ js[n] = MacroTag
  IN  \/ IsTag("tags") \/ IsTag("text") \/ IsTag("bag")
      \/ ("title" \in DOMAIN js /\ js["title"] = MacroTitle)
      \/ /\ "fields" \in DOMAIN js
         /\ \E n \in DOMAIN js["fields"] :
              n = MacroTag \/ js["fields"][n] = MacroTitle

(* --------------------------- error values ------------------------------ *)

NoErr == "nil"

\* store.ErrNotFound
ErrNotFound == "not found"

\* database/sql.ErrNoRows, what QueryRow(...).Scan returns when no row matches
ErrNoRows == "sql: no rows in result set"

\* the *os.PathError of os.Remove on a file that does not exist
ErrNotExist == "remove: no such file or directory"

\* the error of a history deletion that the storage refuses
ErrDelete == "delete failed"

(* ---------------------------- store.Tiddler ---------------------------- *)

Tiddler(meta, key, isDraft, isSys, js) ==
  [Meta |-> meta, Key |-> key, IsDraft |-> isDraft, IsSys |-> isSys, Js |-> js]

\* store.NewTiddler(meta, text) on well-formed meta; text is Nil or Some(bytes)
NewTiddler(meta, text) ==
  IF IsNil(text)
  THEN Tiddler(Some(meta), <<>>, FALSE, FALSE, Nil)
  ELSE Tiddler(Nil, <<>>, FALSE, FALSE,
               Some(SetField(Unmarshal(meta), "text", Val(text))))

\* (*Tiddler).MarshalJSON
MarshalJSON(t) == IF ~IsNil(t.Meta) THEN Val(t.Meta) ELSE Marshal(Val(t.Js))

\* (*Tiddler).GetRevision: json.Unmarshal of a nil or empty Meta fails,
\* giving 1 (the handler never stores an empty object: it sets "bag")
GetRevision(t) ==
  IF ~IsNil(t.Meta) /\ Parses(Val(t.Meta)) THEN RevisionOf(Val(t.Meta)) ELSE 1

(* --------------------------- the HTTP handler -------------------------- *)

Keys == { <<"a">>, <<"$", ":", "/", "s">> }

Kinds == {"plain", "draft", "macro"}

\* request bodies a TiddlyWiki client sends for title key: a tiddler with
\* text and tags, a draft that carries no text member, and a global macro
Body(key, kind) ==
  CASE kind = "plain" -> Marshal([title |-> key, text |-> "hello", tags |-> ""])
    [] kind = "draft" -> Marshal([title |-> key, fields |-> ("draft.of" :> key)])
    [] kind = "macro" -> Marshal([title |-> key, text |-> "\\define m()",
                                  tags |-> MacroTag])

Bodies(key) == {Body(key, kind) : kind \in kinds}

\* putTiddler that looks for "draft.of" among the top-level members of the
\* request JSON
putTiddler_topLevelDraft(key, buf) ==
  LET js0     == Unmarshal(buf)
      js      == SetField(js0, "bag", "bag")
      isSys   == HasPrefix(key, SysPrefix)
      isDraft == "draft.of" \in DOMAIN js
  IN  Tiddler(Nil, key, isDraft, isSys, Some(js))

\* the store.Tiddler that putTiddler hands to StoreDb.Put
putTiddler(key, buf) ==
  LET js0     == Unmarshal(buf)
      js      == SetField(js0, "bag", "bag")
      isSys   == HasPrefix(key, SysPrefix)
      isDraft == "fields" \in DOMAIN js /\ "draft.of" \in DOMAIN js["fields"]
  IN  Tiddler(Nil, key, isDraft, isSys, Some(js))

(* ------------------------------- bbolt --------------------------------- *)

\* (*bolt.Bucket).Get
BucketGet(b, k) == IF k \in DOMAIN b THEN Some(b[k]) ELSE Nil

\* (*bolt.Bucket).Put
BucketPut(b, k, v) == SetField(b, k, v)

\* (*bolt.Bucket).Delete
BucketDelete(b, k) == DelField(b, k)

EmptyBucket == [k \in {} |-> Nil]

\* getLastRevision that does not find the stored metadata
bolt_getLastRevision_absent(b, mkey) == 1

bolt_getLastRevision(b, mkey) ==
  LET data == BucketGet(b, mkey)
  IN  IF ~IsNil(data) /\ Parses(Val(data)) THEN RevisionOf(Val(data)) ELSE 1

\* delete all revision <= rev: every key with prefix "<key>#" whose part after
\* the last '#' parses to a number <= rev.  fail: the bucket refuses Delete,
\* so the loop returns the error at the first key it wants to delete.  The
\* result is the bucket and the error returned.
boltStore_trimRevision(b, key, rev, fail) ==
  LET prefix == key \o <<"#">>
      Gone(k) == /\ HasPrefix(k, prefix)
                 /\ ParseInt(SubSeq(k, LastIndexByte(k, "#") + 1, Len(k))) <= rev
  IN  IF fail /\ \E k \in DOMAIN b : Gone(k)
      THEN [store |-> b, err |-> ErrDelete]
      ELSE [store |-> [k \in {x \in DOMAIN b : ~Gone(x)} |-> b[k]], err |-> NoErr]

\* boltStore_Put with the metadata serialised before the revision is stamped
boltStore_Put_unstamped(tb, hb, max, tiddler, fail) ==
  LET mkey  == tiddler.Key \o MetaKeySuffix
      rev   == bolt_getLastRevision(tb, mkey) + 1
      js0   == Val(tiddler.Js)
      tb1   == BucketPut(tb, mkey, Marshal(DelField(js0, "text")))
      tb2   == BucketPut(tb1, tiddler.Key \o TextKeySuffix, TextOf(js0))
  IN  [tiddlers |-> tb2, history |-> hb, rev |-> rev, err |-> NoErr,
       trimErr |-> NoErr]

\* boltStore_Put whose history test leaves out !tiddler.IsSys
boltStore_Put_sysHistory(tb, hb, max, tiddler, fail) ==
  LET mkey  == tiddler.Key \o MetaKeySuffix
      rev   == bolt_getLastRevision(tb, mkey) + 1
      js1   == SetField(Val(tiddler.Js), "revision", rev)
      keep  == max # 0 /\ ~tiddler.IsDraft
      tb1   == BucketPut(tb, mkey, Marshal(DelField(js1, "text")))
      tb2   == BucketPut(tb1, tiddler.Key \o TextKeySuffix, TextOf(js1))
      trim  == IF keep /\ max > 0 /\ rev - max > 1
               THEN boltStore_trimRevision(hb, tiddler.Key, rev - 1 - max, fail)
               ELSE [store |-> hb, err |-> NoErr]
      hb1   == trim.store
      hb2   == IF keep THEN BucketPut(hb1, HistoryName(tiddler.Key, rev), Marshal(js1))
               ELSE hb
  IN  [tiddlers |-> tb2, history |-> hb2, rev |-> rev, err |-> NoErr,
       trimErr |-> trim.err]

\* boltStore_Put that returns the error of trimRevision from the transaction
\* function, which rolls the transaction back
boltStore_Put_trimChecked(tb, hb, max, tiddler, fail) ==
  LET mkey  == tiddler.Key \o MetaKeySuffix
      rev   == bolt_getLastRevision(tb, mkey) + 1
      js1   == SetField(Val(tiddler.Js), "revision", rev)
      keep  == max # 0 /\ ~tiddler.IsDraft /\ ~tiddler.IsSys
      tb1   == BucketPut(tb, mkey, Marshal(DelField(js1, "text")))
      tb2   == BucketPut(tb1, tiddler.Key \o TextKeySuffix, TextOf(js1))
      trim  == IF keep /\ max > 0 /\ rev - max > 1
               THEN boltStore_trimRevision(hb, tiddler.Key, rev - 1 - max, fail)
               ELSE [store |-> hb, err |-> NoErr]
      hb2   == IF keep
               THEN BucketPut(trim.store, HistoryName(tiddler.Key, rev), Marshal(js1))
               ELSE hb
  IN  IF trim.err # NoErr
      THEN [tiddlers |-> tb, history |-> hb, rev |-> rev, err |-> trim.err,
            trimErr |-> trim.err]
      ELSE [tiddlers |-> tb2, history |-> hb2, rev |-> rev, err |-> NoErr,
            trimErr |-> NoErr]

\* the Update transaction of Put; the result carries the two buckets, the
\* revision and the error returned
boltStore_Put(tb, hb, max, tiddler, fail) ==
  LET mkey  == tiddler.Key \o MetaKeySuffix
      rev   == bolt_getLastRevision(tb, mkey) + 1
      js1   == SetField(Val(tiddler.Js), "revision", rev)
      keep  == max # 0 /\ ~tiddler.IsDraft /\ ~tiddler.IsSys
      data  == Marshal(js1)
      text  == TextOf(js1)
      meta  == Marshal(DelField(js1, "text"))
      tb1   == BucketPut(tb, mkey, meta)
      tb2   == BucketPut(tb1, tiddler.Key \o TextKeySuffix, text)
      trim  == IF keep /\ max > 0 /\ rev - max > 1
               THEN boltStore_trimRevision(hb, tiddler.Key, rev - 1 - max, fail)
               ELSE [store |-> hb, err |-> NoErr]
      hb1   == trim.store
      hb2   == IF keep THEN BucketPut(hb1, HistoryName(tiddler.Key, rev), data)
               ELSE hb
  IN  [tiddlers |-> tb2, history |-> hb2, rev |-> rev, err |-> NoErr,
       trimErr |-> trim.err]

boltStore_Get(tb, key) ==
  LET meta == BucketGet(tb, key \o MetaKeySuffix)
      text == BucketGet(tb, key \o TextKeySuffix)
  IN  IF IsNil(meta) THEN [res |-> Nil, err |-> ErrNotFound]
      ELSE [res |-> Some(NewTiddler(Val(meta), text)), err |-> NoErr]

\* copyOf(p): a fresh slice, never nil, also for a nil p
copyOf(p) == IF IsNil(p) THEN Some("") ELSE p

\* a record of bucket "tiddler" written as metadata: its key ends in "1"
\* (every key of the bucket ends in "|1" or in "|2")
IsMetaKey(k) == HasSuffix(k, <<"1">>)

\* an element of the slice All returns: the tiddler, and as bookkeeping the
\* stored records its metadata and its body were read from
Listed(t, metaOf, textOf) == [t |-> t, metaOf |-> metaOf, textOf |-> textOf]

RECURSIVE boltStore_AllFrom(_, _, _)
\* the cursor loop of All with the cursor on the i-th key of ks: the record
\* under the cursor is taken as metadata and the record after it as its body
boltStore_AllFrom(tb, ks, i) ==
  IF i > Len(ks) THEN <<>>
  ELSE LET meta    == tb[ks[i]]
           isJSON  == IsMetaKey(ks[i])
           empty   == IF isJSON THEN Len(meta) = 0 ELSE meta = ""
           text    == IF i + 1 <= Len(ks) THEN Some(tb[ks[i + 1]]) ELSE Nil
           macro   == isJSON /\ ContainsMacro(meta)
           tiddler == IF macro THEN copyOf(text) ELSE Nil
           textOf  == IF macro /\ i + 1 <= Len(ks) THEN Some(ks[i + 1]) ELSE Nil
       IN  IF empty THEN boltStore_AllFrom(tb, ks, i + 2)
           ELSE <<Listed(NewTiddler(meta, tiddler), ks[i], textOf)>>
                  \o boltStore_AllFrom(tb, ks, i + 2)

boltStore_All(tb) == boltStore_AllFrom(tb, SortedNames(DOMAIN tb), 1)

\* boltStore_Delete that removes the body and the history but leaves the
\* metadata record, and with it the revision counter
boltStore_Delete_leaveMeta(tb, hb, key, fail) ==
  LET rev == bolt_getLastRevision(tb, key \o MetaKeySuffix)
  IN  [tiddlers |-> BucketDelete(tb, key \o TextKeySuffix),
       history |-> boltStore_trimRevision(hb, key, rev, FALSE).store,
       err |-> NoErr]

\* boltStore_Delete without its call of trimRevision
boltStore_Delete_keepHistory(tb, hb, key, fail) ==
  [tiddlers |-> BucketDelete(BucketDelete(tb, key \o MetaKeySuffix),
                             key \o TextKeySuffix),
   history |-> hb, err |-> NoErr]

\* the Update transaction of Delete: an error of trimRevision is returned
\* from the transaction function, which rolls the transaction back
boltStore_Delete(tb, hb, key, fail) ==
  LET mkey == key \o MetaKeySuffix
      rev  == bolt_getLastRevision(tb, mkey)
      tb1  == BucketDelete(tb, mkey)
      tb2  == BucketDelete(tb1, key \o TextKeySuffix)
      trim == boltStore_trimRevision(hb, key, rev, fail)
  IN  IF trim.err # NoErr
      THEN [tiddlers |-> tb, history |-> hb, err |-> trim.err]
      ELSE [tiddlers |-> tb2, history |-> trim.store, err |-> NoErr]

(* ------------------------------ flatFile ------------------------------- *)

IllegalChar == {"<", ">", ":", "\"", "/", "\\", "|", "?", "*", "^"}

key2File(key) ==
  [i \in 1..Len(key) |-> IF key[i] \in IllegalChar THEN "_" ELSE key[i]]

\* ioutil.WriteFile into a directory, modelled as the map name -> content
WriteFile(dir, name, content) == SetField(dir, name, content)

\* os.Stat(...) does not report IsNotExist
Exists(dir, name) == name \in DOMAIN dir

EmptyDir == [n \in {} |-> Nil]

\* key is the file-name form of the title
flat_getLastRevision(tf, key) ==
  IF ~Exists(tf, key \o MetaExt) THEN 1
  ELSE GetRevision(NewTiddler(tf[key \o MetaExt], Nil))

\* computes the name of the entry to drop and returns without removing it
flatFileStore_trimRevision(hf, max, key, rev) ==
  LET tryRev == rev - max
  IN  IF tryRev <= 0 THEN hf
      ELSE IF ~Exists(hf, HistoryName(key, tryRev)) THEN hf
      ELSE hf

\* flatFileStore_Put that writes the body file only for a non-empty text
flatFileStore_Put_skipEmptyText(tf, hf, max, tiddler, fail) ==
  LET key   == key2File(tiddler.Key)
      rev   == flat_getLastRevision(tf, key) + 1
      js1   == SetField(Val(tiddler.Js), "revision", rev)
      data  == Marshal(js1)
      hf1   == IF tiddler.IsDraft \/ max = 0 THEN hf
               ELSE WriteFile(hf, HistoryName(key, rev), data)
      text  == TextOf(js1)
      meta  == Marshal(DelField(js1, "text"))
      tf1   == IF text = "" /\ Exists(tf, key \o TidExt) THEN tf
               ELSE WriteFile(tf, key \o TidExt, text)
      tf2   == WriteFile(tf1, key \o MetaExt, meta)
  IN  IF tiddler.IsSys
      THEN [tiddlers |-> WriteFile(tf, key \o MetaExt, data), history |-> hf,
            rev |-> rev, err |-> NoErr, trimErr |-> NoErr]
      ELSE [tiddlers |-> tf2, history |-> hf1, rev |-> rev, err |-> NoErr,
            trimErr |-> NoErr]

\* flatFileStore_Put without the `case 0` of its switch on maxRev
flatFileStore_Put_noDisable(tf, hf, max, tiddler, fail) ==
  LET key   == key2File(tiddler.Key)
      rev   == flat_getLastRevision(tf, key) + 1
      js1   == SetField(Val(tiddler.Js), "revision", rev)
      data  == Marshal(js1)
      hf1   == IF tiddler.IsDraft THEN hf
               ELSE WriteFile(hf, HistoryName(key, rev), data)
      tf1   == WriteFile(tf, key \o TidExt, TextOf(js1))
      tf2   == WriteFile(tf1, key \o MetaExt, Marshal(DelField(js1, "text")))
  IN  IF tiddler.IsSys
      THEN [tiddlers |-> WriteFile(tf, key \o MetaExt, data), history |-> hf,
            rev |-> rev, err |-> NoErr, trimErr |-> NoErr]
      ELSE [tiddlers |-> tf2, history |-> hf1, rev |-> rev, err |-> NoErr,
            trimErr |-> NoErr]

flatFileStore_Put(tf, hf, max, tiddler, fail) ==
  LET key   == key2File(tiddler.Key)
      rev   == flat_getLastRevision(tf, key) + 1
      js1   == SetField(Val(tiddler.Js), "revision", rev)
      data  == Marshal(js1)
      hf1   == IF tiddler.IsDraft \/ max = 0 THEN hf
               ELSE IF max = -1 THEN WriteFile(hf, HistoryName(key, rev), data)
               ELSE WriteFile(flatFileStore_trimRevision(hf, max, key, rev),
                              HistoryName(key, rev), data)
      text  == TextOf(js1)
      meta  == Marshal(DelField(js1, "text"))
      tf1   == WriteFile(tf, key \o TidExt, text)
      tf2   == WriteFile(tf1, key \o MetaExt, meta)
  IN  IF tiddler.IsSys
      THEN [tiddlers |-> WriteFile(tf, key \o MetaExt, data), history |-> hf,
            rev |-> rev, err |-> NoErr, trimErr |-> NoErr]
      ELSE [tiddlers |-> tf2, history |-> hf1, rev |-> rev, err |-> NoErr,
            trimErr |-> NoErr]

flatFileStore_Get(tf, key0) ==
  LET isSys == HasPrefix(key0, SysPrefix)
      key   == key2File(key0)
  IN  IF ~Exists(tf, key \o MetaExt) THEN [res |-> Nil, err |-> ErrNotFound]
      ELSE IF isSys
      THEN [res |-> Some(NewTiddler(tf[key \o MetaExt], Nil)), err |-> NoErr]
      ELSE IF ~Exists(tf, key \o TidExt) THEN [res |-> Nil, err |-> ErrNotExist]
      ELSE [res |-> Some(NewTiddler(tf[key \o MetaExt], Some(tf[key \o TidExt]))),
            err |-> NoErr]

flatFileStore_Delete(tf, hf, key0) ==
  LET key == key2File(key0)
      tf1 == DelField(tf, key \o MetaExt)
  IN  IF ~Exists(tf, key \o MetaExt)
      THEN [tiddlers |-> tf, history |-> hf, err |-> ErrNotExist]
      ELSE IF ~Exists(tf1, key \o TidExt)
      THEN [tiddlers |-> tf1, history |-> hf, err |-> ErrNotExist]
      ELSE [tiddlers |-> DelField(tf1, key \o TidExt), history |-> hf,
            err |-> NoErr]

\* the process's working directory: the store writes below ./<dataSource>
\* only, so no file of the store is in it
WorkDir == EmptyDir

\* ioutil.ReadFile with the error dropped: nil when the file does not exist
ReadFile(dir, name) == IF Exists(dir, name) THEN Some(dir[name]) ELSE Nil

\* checkExt(s.tiddlersPath, ".meta"): the .meta files in the order Walk
\* visits them
checkExt(dir, ext) == SortedNames({n \in DOMAIN dir : HasSuffix(n, ext)})

\* All reads <name>.meta from the tiddlers directory and, for a macro,
\* <name>.tid by its bare name, that is from the working directory
flatFileStore_All(tf) ==
  LET files == checkExt(tf, MetaExt)
      Entry(file) ==
        LET meta    == tf[file]
            macro   == ContainsMacro(meta)
            name    == SubSeq(file, 1, Len(file) - Len(MetaExt)) \o TidExt
            tiddler == IF macro THEN ReadFile(WorkDir, name) ELSE Nil
        IN  Listed(NewTiddler(meta, tiddler), file,
                   IF IsNil(tiddler) THEN Nil ELSE Some(name))
  IN  [i \in 1..Len(files) |-> Entry(files[i])]

(* ------------------------------- sqlite -------------------------------- *)

\* a table is the sequence of its rows in rowid order
Row(title, meta, content, revision) ==
  [title |-> title, meta |-> meta, content |-> content, revision |-> revision]

\* SELECT ... FROM t WHERE title = ?
RowsOf(t, title) == SelectSeq(t, LAMBDA r : r.title = title)

\* DELETE FROM t WHERE title = ?
DeleteTitle(t, title) == SelectSeq(t, LAMBDA r : r.title # title)

\* INSERT INTO tiddler ... ON CONFLICT(title) DO UPDATE SET meta, content, revision
Upsert(t, row) ==
  IF \E i \in 1..Len(t) : t[i].title = row.title
  THEN [i \in 1..Len(t) |-> IF t[i].title = row.title THEN row ELSE t[i]]
  ELSE Append(t, row)

sqlite_getLastRevision(tt, mkey) ==
  LET rows == RowsOf(tt, mkey)
  IN  IF Len(rows) = 0 THEN 1 ELSE rows[1].revision

\* DELETE FROM tiddler_history WHERE title = ? AND revision <= ?
\* fail: Prepare or Exec of the statement returns an error.  The result is
\* the table and the error returned.
sqliteStore_trimRevision(ht, key, rev, fail) ==
  IF fail THEN [store |-> ht, err |-> ErrDelete]
  ELSE [store |-> SelectSeq(ht, LAMBDA r : ~(r.title = key /\ r.revision <= rev)),
        err |-> NoErr]

\* sqliteStore_Put whose history test leaves out !tiddler.IsDraft
sqliteStore_Put_draftHistory(tt, ht, max, tiddler, fail) ==
  LET rev  == sqlite_getLastRevision(tt, tiddler.Key) + 1
      js1  == SetField(Val(tiddler.Js), "revision", rev)
      row  == Row(tiddler.Key, Marshal(DelField(js1, "text")), TextOf(js1), rev)
      keep == max # 0 /\ ~tiddler.IsSys
      trim == IF keep /\ max > 0 /\ rev - max > 1
              THEN sqliteStore_trimRevision(ht, tiddler.Key, rev - 1 - max, fail)
              ELSE [store |-> ht, err |-> NoErr]
      ht1  == trim.store
      ht2  == IF keep THEN Append(ht1, row) ELSE ht
  IN  [tiddlers |-> Upsert(tt, row), history |-> ht2, rev |-> rev, err |-> NoErr,
       trimErr |-> trim.err]

sqliteStore_Put(tt, ht, max, tiddler, fail) ==
  LET rev  == sqlite_getLastRevision(tt, tiddler.Key) + 1
      js1  == SetField(Val(tiddler.Js), "revision", rev)
      text == TextOf(js1)
      meta == Marshal(DelField(js1, "text"))
      row  == Row(tiddler.Key, meta, text, rev)
      keep == max # 0 /\ ~tiddler.IsDraft /\ ~tiddler.IsSys
      trim == IF keep /\ max > 0 /\ rev - max > 1
              THEN sqliteStore_trimRevision(ht, tiddler.Key, rev - 1 - max, fail)
              ELSE [store |-> ht, err |-> NoErr]
      ht1  == trim.store
      ht2  == IF keep THEN Append(ht1, row) ELSE ht
  IN  [tiddlers |-> Upsert(tt, row), history |-> ht2, rev |-> rev, err |-> NoErr,
       trimErr |-> trim.err]

sqliteStore_Get(tt, key) ==
  LET rows == RowsOf(tt, key)
  IN  IF Len(rows) = 0 THEN [res |-> Nil, err |-> ErrNoRows]
      ELSE [res |-> Some(NewTiddler(rows[1].meta, Some(rows[1].content))),
            err |-> NoErr]

\* SELECT meta, content FROM tiddler, in rowid order
sqliteStore_All(tt) ==
  [i \in 1..Len(tt) |->
     LET macro == ContainsMacro(tt[i].meta)
     IN  Listed(NewTiddler(tt[i].meta,
                           IF macro THEN Some(tt[i].content) ELSE Nil),
                tt[i].title, IF macro THEN Some(tt[i].title) ELSE Nil)]

\* sqliteStore_Delete that deletes the history rows only
sqliteStore_Delete_historyOnly(tt, ht, max, key) ==
  [tiddlers |-> tt,
   history  |-> IF max = 0 THEN ht ELSE DeleteTitle(ht, key),
   err      |-> NoErr]

sqliteStore_Delete(tt, ht, max, key) ==
  [tiddlers |-> DeleteTitle(tt, key),
   history  |-> IF max = 0 THEN ht ELSE DeleteTitle(ht, key),
   err      |-> NoErr]

(* --------------------------- failing writes ---------------------------- *)
(* A Put performs its writes in the order of its code.  fault = n > 0: the  *)
(* n-th write of the call returns an error and changes nothing itself;      *)
(* fault = 0, or fewer than n writes in the call: every write succeeds.     *)

\* the error a refused write returns
ErrWrite == "write failed"

Faults == 0..3

\* the writes of the Update function are b.Put(mkey), b.Put(<key>|2) and
\* history.Put; it returns the error of any of them, Update rolls the
\* transaction back and Put returns 0 and the error
boltStore_PutAt(tb, hb, max, tiddler, fault) ==
  LET keep   == max # 0 /\ ~tiddler.IsDraft /\ ~tiddler.IsSys
      writes == IF keep THEN 3 ELSE 2
  IN  IF fault \in 1..writes
      THEN [tiddlers |-> tb, history |-> hb, rev |-> 0, err |-> ErrWrite,
            trimErr |-> NoErr]
      ELSE boltStore_Put(tb, hb, max, tiddler, FALSE)

\* a system key has one write, the .meta file; any other key has the history
\* file (unless skipped), the .tid file and the .meta file.  A failed history
\* write returns rev and the error, any other failed write 0 and the error;
\* the files written before it stay written
flatFileStore_PutAt(tf, hf, max, tiddler, fault) ==
  LET ok      == flatFileStore_Put(tf, hf, max, tiddler, FALSE)
      key     == key2File(tiddler.Key)
      js1     == SetField(Val(tiddler.Js), "revision", ok.rev)
      keep    == ~tiddler.IsDraft /\ max # 0
      tidAt   == IF keep THEN 2 ELSE 1
      Failed(t, h, rev) ==
        [tiddlers |-> t, history |-> h, rev |-> rev, err |-> ErrWrite,
         trimErr |-> NoErr]
  IN  IF tiddler.IsSys
      THEN IF fault = 1 THEN Failed(tf, hf, 0) ELSE ok
      ELSE IF keep /\ fault = 1 THEN Failed(tf, hf, ok.rev)
      ELSE IF fault = tidAt THEN Failed(tf, ok.history, 0)
      ELSE IF fault = tidAt + 1
      THEN Failed(WriteFile(tf, key \o TidExt, TextOf(js1)), ok.history, 0)
      ELSE ok

\* the writes are the Exec of the upsert and the Exec of the INSERT into
\* tiddler_history, both on s.db and so committed statement by statement,
\* and then tx.Commit of the transaction that holds no statement: an error
\* of Commit returns rev and the error, any other error 0 and the error
sqliteStore_PutAt(tt, ht, max, tiddler, fault) ==
  LET ok     == sqliteStore_Put(tt, ht, max, tiddler, FALSE)
      keep   == max # 0 /\ ~tiddler.IsDraft /\ ~tiddler.IsSys
      commit == IF keep THEN 3 ELSE 2
      trim   == IF keep /\ max > 0 /\ ok.rev - max > 1
                THEN sqliteStore_trimRevision(ht, tiddler.Key, ok.rev - 1 - max,
                                              FALSE).store
                ELSE ht
      Failed(t, h, rev) ==
        [tiddlers |-> t, history |-> h, rev |-> rev, err |-> ErrWrite,
         trimErr |-> NoErr]
  IN  IF fault = 1 THEN Failed(tt, ht, 0)
      ELSE IF keep /\ fault = 2 THEN Failed(ok.tiddlers, trim, 0)
      ELSE IF fault = commit THEN Failed(ok.tiddlers, ok.history, ok.rev)
      ELSE ok

(* --------------------------- the open store ---------------------------- *)

Backends == {"flatFile", "bbolt", "sqlite"}

\* TiddlerStore.Put on the open store; fail: the storage refuses the
\* deletions of history trimming during this call
StorePut(tiddler, fail) ==
  CASE backend = "bbolt" ->
         boltStore_Put(tiddlers, history, maxRev, tiddler, fail)
    [] backend = "flatFile" ->
         flatFileStore_Put(tiddlers, history, maxRev, tiddler, fail)
    [] backend = "sqlite" ->
         sqliteStore_Put(tiddlers, history, maxRev, tiddler, fail)

\* TiddlerStore.Put on the open store whose fault-th write fails
StorePutAt(tiddler, fault) ==
  CASE backend = "bbolt" ->
         boltStore_PutAt(tiddlers, history, maxRev, tiddler, fault)
    [] backend = "flatFile" ->
         flatFileStore_PutAt(tiddlers, history, maxRev, tiddler, fault)
    [] backend = "sqlite" ->
         sqliteStore_PutAt(tiddlers, history, maxRev, tiddler, fault)

\* TiddlerStore.Get on the store whose current values are t
StoreGet(t, key) ==
  CASE backend = "bbolt"    -> boltStore_Get(t, key)
    [] backend = "flatFile" -> flatFileStore_Get(t, key)
    [] backend = "sqlite"   -> sqliteStore_Get(t, key)

\* TiddlerStore.All on the store whose current values are t
StoreAll(t) ==
  CASE backend = "bbolt"    -> boltStore_All(t)
    [] backend = "flatFile" -> flatFileStore_All(t)
    [] backend = "sqlite"   -> sqliteStore_All(t)

\* TiddlerStore.Delete on the open store; fail as for StorePut
StoreDelete(key, fail) ==
  CASE backend = "bbolt"    -> boltStore_Delete(tiddlers, history, key, fail)
    [] backend = "flatFile" -> flatFileStore_Delete(tiddlers, history, key)
    [] backend = "sqlite"   -> sqliteStore_Delete(tiddlers, history, maxRev, key)

\* the stored record that holds the metadata of title key
MetaName(key) ==
  CASE backend = "bbolt"    -> key \o MetaKeySuffix
    [] backend = "flatFile" -> key2File(key) \o MetaExt
    [] backend = "sqlite"   -> key

\* the stored record that holds the body of title key
TextName(key) ==
  CASE backend = "bbolt"    -> key \o TextKeySuffix
    [] backend = "flatFile" -> key2File(key) \o TidExt
    [] backend = "sqlite"   -> key

\* the stored record was written as metadata, so its bytes are a JSON object
IsMetaRecord(name) == backend = "bbolt" => IsMetaKey(name)

\* SetMaxHistory with a retroactive effect: it drops the history on the spot
StoreSetMaxHistory_retroactive(rev) ==
  [maxRev |-> rev, tiddlers |-> tiddlers,
   history |-> IF rev = -1 THEN history
               ELSE IF backend = "sqlite" THEN <<>> ELSE EmptyBucket]

\* TiddlerStore.SetMaxHistory on the open store: s.maxRev = rev in the three
\* backends; the result is the field and the two stores after the call
StoreSetMaxHistory(rev) ==
  [maxRev |-> rev, tiddlers |-> tiddlers, history |-> history]

\* the revision part of a history entry name "<key>#<rev>"
EntryRev(name) == ParseInt(SubSeq(name, LastIndexByte(name, "#") + 1, Len(name)))

\* the history entries stored for title key in history store h, as the set of
\* their positions (sqlite) or names (bbolt, flatFile)
HistoryEntries(h, key) ==
  CASE backend = "bbolt" ->
         {n \in DOMAIN h : n = HistoryName(key, EntryRev(n))}
    [] backend = "flatFile" ->
         {n \in DOMAIN h : n = HistoryName(key2File(key), EntryRev(n))}
    [] backend = "sqlite" ->
         {i \in 1..Len(h) : h[i].title = key}

\* the revisions of those entries
HistoryRevs(h, key) ==
  IF backend = "sqlite" THEN {h[i].revision : i \in HistoryEntries(h, key)}
  ELSE {EntryRev(n) : n \in HistoryEntries(h, key)}

\* the revision field of the document a Get result serialises to
RevisionField(t) == RevisionOf(MarshalJSON(t))

\* the revision stored as the current value of title key, 0 when it has none
CurrentRevision(t, key) ==
  LET r == StoreGet(t, key)
  IN  IF IsNil(r.res) THEN 0 ELSE RevisionField(Val(r.res))

\* title key has a current value in t: its metadata record exists
Present(t, key) ==
  CASE backend = "bbolt"    -> (key \o MetaKeySuffix) \in DOMAIN t
    [] backend = "flatFile" -> Exists(t, key2File(key) \o MetaExt)
    [] backend = "sqlite"   -> Len(RowsOf(t, key)) > 0

\* the request goroutines
Procs == {"p", "q"}

\* a goroutine that serves no request; of a call it records
\*   pc:    "idle" (no call, or the call has returned), "start", the name of
\*          the next step of the handler, or "done" (about to return)
\*   op, key, arg: the call and its arguments;  n: the goroutine's call count
\*   rev, meta: the locals rev and meta of the backend method
\*   ret, err, res: the revision, error and tiddler returned
\*   with:  the calls <<goroutine, n>> that were executing while it was
\*   epoch: the number of Deletes committed before its write
NoRequest == [pc |-> "idle", op |-> "none", key |-> <<>>, arg |-> Nil, n |-> 0,
              rev |-> 0, meta |-> Nil, ret |-> 0, err |-> NoErr, res |-> Nil,
              with |-> {}, epoch |-> 0]

\* what `last` records of a call: the operation, its key, the revision and
\* error returned, Get's tiddler, Put's argument, and for the claims
\*   removed: at a Put, removed[key] before the call
\*   prev:    at a Put, the current revision before the call (0: no value)
\*   justPut: at a Get, the revision returned by the Put of the same key
\*            that immediately preceded it (0: none)
\*   all:     All's slice
\*   trimErr: at a Put, the error its call of trimRevision returned
\*   data:    the bytes MarshalJSON returned
NoCall == [op |-> "Open", key |-> <<>>, rev |-> 0, err |-> NoErr, res |-> Nil,
           arg |-> Nil, removed |-> 0, prev |-> 0, justPut |-> 0, all |-> <<>>,
           trimErr |-> NoErr, data |-> Nil]

(* ------------------------------ sessions ------------------------------- *)
(* api/session.go.  A *Store is the record of its fields t and val["uid"]  *)
(* (Nil: no uid); Sess.clients maps the session ids it holds to them.      *)

\* SessionTimeout (30 minutes) is one tick of the clock; the time.Sleep of
\* the cleaner (30 seconds) is shorter than a tick, so the cleaner may start
\* a pass at any reading of the clock
SessionTimeout == 1

\* main's Authenticate: the user is in the account file and the password
\* hashes to the stored hash
Accounts == { <<"u", "pw">> }

Authenticate(user, pwd) == <<user, pwd>> \in Accounts

\* the session id the clients carry, the id genSID returns (18 random
\* bytes, which no request of the clients carries), and a cookie "sid" with
\* empty value
Sids == {"s"}

GenSids == {"g"}

EmptyCookie == ""

\* (*Session).GetSID: the cookie is Nil (no cookie "sid") or Some(value)
ErrCookie == "Cookie not found"

GetSID(cookie) ==
  IF IsNil(cookie) \/ Val(cookie) = EmptyCookie
  THEN [sid |-> EmptyCookie, err |-> ErrCookie]
  ELSE [sid |-> Val(cookie), err |-> NoErr]

NoClients == [sid \in {} |-> Nil]

NewStore(clock) == [t |-> clock + SessionTimeout, val |-> Nil]

\* (*Store).ReNew
ReNew(sess, clock) == [sess EXCEPT !.t = clock + SessionTimeout]

\* (*Store).IsLogin
IsLogin(sess) == ~IsNil(sess.val)

\* (*Store).Login: Set("uid", user), which also renews
Login(sess, user, clock) == [t |-> clock + SessionTimeout, val |-> Some(user)]

\* (*Session).getSession
getSession(c, sid) == IF sid \in DOMAIN c THEN Some(c[sid]) ELSE Nil

\* (*Session).newSession: the table afterwards; the session returned is its
\* entry for sid
newSession(c, sid, clock) ==
  LET sess == getSession(c, sid)
  IN  IF ~IsNil(sess) THEN SetField(c, sid, ReNew(Val(sess), clock))
      ELSE SetField(c, sid, NewStore(clock))

\* (*Session).Start: the session id is the cookie's or, without a cookie,
\* the id fresh that genSID returns
Start(c, cookie, fresh, clock) ==
  LET got == GetSID(cookie)
      sid == IF got.err # NoErr THEN fresh ELSE got.sid
  IN  [clients |-> newSession(c, sid, clock), sid |-> sid]

\* (*Session).destroy
destroy(c, sid) == IF sid \notin DOMAIN c THEN c ELSE DelField(c, sid)

\* (*Session).Destroy: by the cookie of the request
Destroy(c, cookie) ==
  IF GetSID(cookie).err # NoErr THEN c ELSE destroy(c, GetSID(cookie).sid)

\* time.Now().After(u.t)
Expired(sess, clock) == clock > sess.t

StatusOK == 200

StatusNoContent == 204

StatusForbidden == 403

StatusMethodNotAllowed == 405

StatusInternalServerError == 500

\* checkAuth that accepts every request that carries a cookie
checkAuth_anyCookie(c, cookie, clock) ==
  IF GetSID(cookie).err # NoErr
  THEN [ok |-> FALSE, clients |-> c, status |-> StatusForbidden]
  ELSE [ok |-> TRUE, clients |-> Start(c, cookie, EmptyCookie, clock).clients,
        status |-> StatusOK]

\* checkAuth: whether the handler goes on, the session table afterwards and
\* the status written when it does not
checkAuth(c, cookie, clock) ==
  IF GetSID(cookie).err # NoErr
  THEN [ok |-> FALSE, clients |-> c, status |-> StatusForbidden]
  ELSE LET st == Start(c, cookie, EmptyCookie, clock)
       IN  IF ~IsLogin(st.clients[st.sid])
           THEN [ok |-> FALSE, clients |-> Destroy(st.clients, cookie),
                 status |-> StatusForbidden]
           ELSE [ok |-> TRUE, clients |-> st.clients, status |-> StatusOK]

\* logout that leaves the session in the table
logout_keepSession(c, method, cookie) ==
  IF method # "POST" THEN [clients |-> c, status |-> StatusMethodNotAllowed]
  ELSE [clients |-> c, status |-> StatusOK]

\* logout
logout(c, method, cookie) ==
  IF method # "POST" THEN [clients |-> c, status |-> StatusMethodNotAllowed]
  ELSE [clients |-> Destroy(c, cookie), status |-> StatusOK]

\* login: the table afterwards, the status, and whether Authenticate
\* returned true
login(c, method, cookie, user, pwd, fresh, clock) ==
  IF method # "POST"
  THEN [clients |-> c, status |-> StatusMethodNotAllowed, ok |-> FALSE]
  ELSE IF ~Authenticate(user, pwd)
  THEN [clients |-> c, status |-> StatusOK, ok |-> FALSE]
  ELSE LET st == Start(c, cookie, fresh, clock)
       IN  IF IsLogin(st.clients[st.sid])
           THEN [clients |-> st.clients, status |-> StatusOK, ok |-> TRUE]
           ELSE [clients |-> SetField(st.clients, st.sid,
                                      Login(st.clients[st.sid], user, clock)),
                 status |-> StatusOK, ok |-> TRUE]

\* the cleaner in its time.Sleep
Asleep == [pc |-> "sleep", list |-> {}, sid |-> EmptyCookie]

\* the base page
BasePage == "base"

\* what `answer` records of the request served last: the handler, the
\* method, the cookie "sid" and the form values it carried, the status
\* written, whether internalError logged an error, and for the claims
\*   call: the store method the handler called, or "WriteFile" of index.html
\*   out:  the session ids whose logout completed with no login accepted
\*         for them since
NoAnswer == [handler |-> "none", method |-> "none", cookie |-> Nil,
             user |-> "", pwd |-> "", status |-> 0, logged |-> FALSE,
             call |-> "none", out |-> {}]

\* package api after its variables are initialised: no session, the cleaner
\* started, no request served
NoSessions ==
  /\ clients = NoClients
  /\ now = 0
  /\ cleaner = Asleep
  /\ index = BasePage
  /\ answer = NoAnswer

(* -------------------------- backend registry --------------------------- *)

\* strings.ToLower on the letters that occur in type names
ToLowerChar(c) ==
  CASE c = "B" -> "b" [] c = "F" -> "f" [] c = "S" -> "s" [] OTHER -> c

ToLower(s) == [i \in 1..Len(s) |-> ToLowerChar(s[i])]

\* the TypeName constants of the backend packages
bolt_TypeName == <<"b", "b", "o", "l", "t">>

flatFile_TypeName == <<"f", "l", "a", "t", "F", "i", "l", "e">>

sqlite_TypeName == <<"s", "q", "l", "i", "t", "e">>

\* the constructors: the Open function of each backend package
OpenFns == {"bbolt", "flatFile", "sqlite"}

ErrDBExist == "same backend exist"

ErrDBNotExist == "backend not exist"

\* an error of a constructor: cannot create the directory, open the file,
\* create the tables
ErrIO == "i/o error"

\* make(map[string]*TiddlerBackend)
EmptyList == [n \in {} |-> Nil]

TiddlerBackend(name, open) == [Name |-> name, Open |-> open]

\* RegBackend that replaces the entry of a name that is registered
store_RegBackend_replace(list, nameo, fn) ==
  IF IsNil(fn) THEN [list |-> list, err |-> ErrDBNotExist]
  ELSE [list |-> SetField(list, ToLower(nameo), TiddlerBackend(nameo, Val(fn))),
        err |-> NoErr]

\* RegBackend(nameo, fn); fn is nil or a constructor.  The result is the
\* registry after the call and the error returned.
store_RegBackend(list, nameo, fn) ==
  LET name == ToLower(nameo)
  IN  IF IsNil(fn) THEN [list |-> list, err |-> ErrDBNotExist]
      ELSE IF name \in DOMAIN list THEN [list |-> list, err |-> ErrDBExist]
      ELSE [list |-> SetField(list, name, TiddlerBackend(nameo, Val(fn))),
            err |-> NoErr]

\* the value a constructor returns for dataSource when the substrate answers
\* ioErr: the open store, or the error
Construct(open, dataSource, ioErr) ==
  IF ioErr = NoErr
  THEN [res |-> Some([store |-> open, dataSource |-> dataSource]), err |-> NoErr]
  ELSE [res |-> Nil, err |-> ioErr]

\* store.Open that looks the name up as it was given
store_Open_caseSensitive(list, name0, dataSource, ioErr) ==
  IF name0 \notin DOMAIN list
  THEN [called |-> Nil, res |-> Nil, err |-> ErrDBNotExist]
  ELSE LET r == Construct(list[name0].Open, dataSource, ioErr)
       IN  [called |-> Some(<<list[name0].Open, dataSource>>),
            res |-> r.res, err |-> r.err]

\* store.Open(name, dataSource).  The result is the constructor call made
\* (nil: none) and the store and error returned.
store_Open(list, name0, dataSource, ioErr) ==
  LET name == ToLower(name0)
  IN  IF name \notin DOMAIN list
      THEN [called |-> Nil, res |-> Nil, err |-> ErrDBNotExist]
      ELSE LET r == Construct(list[name].Open, dataSource, ioErr)
           IN  [called |-> Some(<<list[name].Open, dataSource>>),
                res |-> r.res, err |-> r.err]

\* the registry after the init functions of the three backend packages
Registered ==
  LET l1 == store_RegBackend(EmptyList, bolt_TypeName, Some("bbolt")).list
      l2 == store_RegBackend(l1, flatFile_TypeName, Some("flatFile")).list
  IN  store_RegBackend(l2, sqlite_TypeName, Some("sqlite")).list

\* the -db flag
DataSource == "widdly.db"

(* ------------------------------ behaviour ------------------------------ *)

\* store.Open: each constructor returns an empty store with maxRev -1
Opened ==
  /\ backendlist = Registered
  /\ backend \in Backends
  /\ opened = << <<backend, DataSource>> >>
  /\ maxRev = -1
  /\ tiddlers = (CASE backend = "bbolt" -> EmptyBucket
                    [] backend = "flatFile" -> EmptyDir
                    [] backend = "sqlite" -> <<>>)
  /\ history = (CASE backend = "bbolt" -> EmptyBucket
                   [] backend = "flatFile" -> EmptyDir
                   [] backend = "sqlite" -> <<>>)
  /\ last = NoCall
  /\ config = [starts |-> 0, rev |-> -1]
  /\ procs = [p \in Procs |-> NoRequest]
  /\ txlog = [since |-> <<>>, deletes |-> 0, pairs |-> {}]
  /\ NoSessions

\* a client that edits a plain title and a system title
Init ==
  /\ Opened
  /\ titles = Keys
  /\ kinds = {"plain", "draft"}
  /\ supplied = [k \in titles |-> Nil]
  /\ removed = [k \in titles |-> 0]

\* main: db.SetMaxHistory(*rev), once, right after store.Open and before the
\* handlers are registered
SetMaxHistory(rev) ==
  \E r \in {StoreSetMaxHistory(rev)} :
      /\ last.op = "Open"
      /\ maxRev' = r.maxRev
      /\ tiddlers' = r.tiddlers
      /\ history' = r.history
      /\ last' = [NoCall EXCEPT !.op = "SetMaxHistory"]
      /\ config' = [starts |-> 1, rev |-> rev]
      /\ UNCHANGED <<web, backendlist, opened, backend, supplied, removed, titles, kinds, procs, txlog>>

\* the server is stopped and main runs again on the same data source with
\* another -rev flag: store.Open finds the stored values and history as they
\* are, the constructor sets maxRev to -1, and main calls SetMaxHistory
Restart(rev) ==
  \E r \in {StoreSetMaxHistory(rev)} :
      /\ last.op # "Open"
      /\ config.starts <= MaxRestarts
      /\ maxRev' = r.maxRev
      /\ tiddlers' = r.tiddlers
      /\ history' = r.history
      /\ last' = [NoCall EXCEPT !.op = "SetMaxHistory"]
      /\ config' = [starts |-> config.starts + 1, rev |-> rev]
      /\ UNCHANGED <<web, backendlist, opened, backend, supplied, removed, titles, kinds, procs, txlog>>

\* putTiddler, then StoreDb.Put, on a storage that refuses (fail) or
\* performs the deletions of history trimming
StoreDbPut(key, buf, fail) ==
  \E t \in {putTiddler(key, buf)} : \E r \in {StorePut(t, fail)} :
      /\ last.op # "Open"
      /\ r.rev <= MaxRevision
      /\ tiddlers' = r.tiddlers
      /\ history' = r.history
      /\ last' = [NoCall EXCEPT !.op = "Put", !.key = key, !.rev = r.rev,
                                !.err = r.err, !.arg = Some(t),
                                !.trimErr = r.trimErr,
                                !.removed = removed[key],
                                !.prev = CurrentRevision(tiddlers, key)]
      /\ supplied' = [supplied EXCEPT ![key] = t.Js]
      /\ removed' = [removed EXCEPT ![key] = 0]
      /\ UNCHANGED <<backendlist, opened, backend, maxRev, titles, kinds, config, procs, txlog>>

PutOn(key, buf, fail) == StoreDbPut(key, buf, fail) /\ UNCHANGED web

\* PUT /recipes/all/tiddlers/<key> of a client that is logged in
Put(key, buf) == PutOn(key, buf, FALSE)

\* StoreDb.Get
StoreDbGet(key) ==
  \E r \in {StoreGet(tiddlers, key)} :
      /\ last.op # "Open"
      /\ last' = [NoCall EXCEPT !.op = "Get", !.key = key, !.err = r.err,
                                !.res = r.res,
                                !.justPut = IF last.op = "Put" /\ last.key = key
                                            THEN last.rev ELSE 0]
      /\ UNCHANGED <<backendlist, opened, backend, maxRev, tiddlers, history, supplied, removed,
                     titles, kinds, config, procs, txlog>>

\* GET /recipes/all/tiddlers/<key>
Get(key) == StoreDbGet(key) /\ UNCHANGED web

\* StoreDb.Delete on a storage that refuses (fail) or performs the deletions
\* of history entries; a Delete that was refused has deleted nothing
StoreDbDelete(key, fail) ==
  \E r \in {StoreDelete(key, fail)} :
      /\ last.op # "Open"
      /\ tiddlers' = r.tiddlers
      /\ history' = r.history
      /\ last' = [NoCall EXCEPT !.op = "Delete", !.key = key, !.err = r.err]
      /\ supplied' = IF r.err = ErrDelete THEN supplied
                     ELSE [supplied EXCEPT ![key] = Nil]
      /\ removed' = [removed EXCEPT ![key] =
                       IF Present(tiddlers, key) /\ r.err # ErrDelete
                       THEN CurrentRevision(tiddlers, key)
                       ELSE @]
      /\ UNCHANGED <<backendlist, opened, backend, maxRev, titles, kinds, config, procs, txlog>>

DeleteOn(key, fail) == StoreDbDelete(key, fail) /\ UNCHANGED web

\* DELETE /bags/bag/tiddlers/<key> of a client that is logged in
Delete(key) == DeleteOn(key, FALSE)

\* StoreDb.All
StoreDbAll ==
  /\ last.op # "Open"
  /\ last' = [NoCall EXCEPT !.op = "All", !.all = StoreAll(tiddlers)]
  /\ UNCHANGED <<backendlist, opened, backend, maxRev, tiddlers, history, supplied, removed,
                 titles, kinds, config, procs, txlog>>

\* GET /recipes/all/tiddlers.json of a client without cookie
All == StoreDbAll /\ UNCHANGED web

Next ==
  \/ \E rev \in -1..MaxHistory : SetMaxHistory(rev)
  \/ \E key \in titles : \E buf \in Bodies(key) : Put(key, buf)
  \/ \E key \in titles : Get(key)
  \/ \E key \in titles : Delete(key)
  \/ All

Spec == Init /\ [][Next]_vars

\* the same server on a storage that may refuse to delete history entries
NextFault ==
  \/ \E rev \in -1..MaxHistory : SetMaxHistory(rev)
  \/ \E key \in titles : \E buf \in Bodies(key) : \E fail \in BOOLEAN :
       PutOn(key, buf, fail)
  \/ \E key \in titles : Get(key)
  \/ \E key \in titles : \E fail \in BOOLEAN : DeleteOn(key, fail)
  \/ All

SpecFault == Init /\ [][NextFault]_vars

\* a client that edits one plain title
InitRestart ==
  /\ Opened
  /\ titles = { <<"a">> }
  /\ kinds = {"plain", "draft"}
  /\ supplied = [k \in titles |-> Nil]
  /\ removed = [k \in titles |-> 0]

\* the server with restarts between the requests
NextRestart ==
  \/ \E rev \in -1..MaxHistory : SetMaxHistory(rev)
  \/ \E rev \in -1..MaxHistory : Restart(rev)
  \/ \E key \in titles : \E buf \in Bodies(key) : Put(key, buf)
  \/ \E key \in titles : Get(key)
  \/ \E key \in titles : Delete(key)
  \/ All

SpecRestart == InitRestart /\ [][NextRestart]_vars

\* the title sets of the listing runs: a plain and a system title; two titles
\* of which one continues the other's metadata key "<title>|1"; two titles
\* that key2File maps to one file name
TitleSets ==
  { Keys,
    { <<"a">>, <<"a", "|", "1">> },
    { <<"a", "|", "1">>, <<"a", "_", "1">> } }

\* a client that edits one of the title sets and puts plain tiddlers and
\* global macros
InitAll ==
  /\ Opened
  /\ titles \in TitleSets
  /\ kinds = {"plain", "macro"}
  /\ supplied = [k \in titles |-> Nil]
  /\ removed = [k \in titles |-> 0]

\* the same requests against a server started with -rev 0, which keeps no
\* history
NextAll ==
  \/ SetMaxHistory(0)
  \/ \E key \in titles : \E buf \in Bodies(key) : Put(key, buf)
  \/ \E key \in titles : Get(key)
  \/ \E key \in titles : Delete(key)
  \/ All

SpecAll == InitAll /\ [][NextAll]_vars

\* PUT /recipes/all/tiddlers/<key> on a storage whose fault-th write of the
\* call fails; the revision the call computes is capped, whatever it returns
PutAt(key, buf, fault) ==
  \E t \in {putTiddler(key, buf)} : \E r \in {StorePutAt(t, fault)} :
      /\ last.op # "Open"
      /\ StorePut(t, FALSE).rev <= MaxRevision
      /\ tiddlers' = r.tiddlers
      /\ history' = r.history
      /\ last' = [NoCall EXCEPT !.op = "Put", !.key = key, !.rev = r.rev,
                                !.err = r.err, !.arg = Some(t),
                                !.removed = removed[key],
                                !.prev = CurrentRevision(tiddlers, key)]
      /\ supplied' = IF r.err = NoErr THEN [supplied EXCEPT ![key] = t.Js]
                     ELSE supplied
      /\ removed' = IF r.err = NoErr THEN [removed EXCEPT ![key] = 0]
                    ELSE removed
      /\ UNCHANGED <<web, backendlist, opened, backend, maxRev, titles, kinds, config, procs, txlog>>

\* a client that edits one title, a plain one or a system one
InitWrite ==
  /\ Opened
  /\ titles \in {{k} : k \in Keys}
  /\ kinds = {"plain", "draft"}
  /\ supplied = [k \in titles |-> Nil]
  /\ removed = [k \in titles |-> 0]

\* the server on a storage that may fail one write of a Put
NextWrite ==
  \/ \E rev \in -1..MaxHistory : SetMaxHistory(rev)
  \/ \E key \in titles : \E buf \in Bodies(key) : \E fault \in Faults :
       PutAt(key, buf, fault)
  \/ \E key \in titles : Get(key)
  \/ \E key \in titles : Delete(key)

SpecWrite == InitWrite /\ [][NextWrite]_vars

\* a client that edits two plain titles of which one continues the other's
\* history-key prefix "<title>#"
InitKeys ==
  /\ Opened
  /\ titles = { <<"a">>, <<"a", "#", "1">> }
  /\ kinds = {"plain"}
  /\ supplied = [k \in titles |-> Nil]
  /\ removed = [k \in titles |-> 0]

\* the server started with any -rev
NextKeys ==
  \/ \E rev \in -1..MaxHistory : SetMaxHistory(rev)
  \/ \E key \in titles : \E buf \in Bodies(key) : Put(key, buf)
  \/ \E key \in titles : Get(key)
  \/ \E key \in titles : Delete(key)

SpecKeys == InitKeys /\ [][NextKeys]_vars

(* ---------------------------- HTTP requests ---------------------------- *)
(* The handlers of InitHandle with their session handling, each served in  *)
(* one step, and the cleaner goroutine, which takes its locks step by      *)
(* step between them.                                                      *)

\* the cookie header of a request: none, empty, or a session id
Cookies == {Nil, Some(EmptyCookie)} \cup {Some(sid) : sid \in Sids}

\* the request is recorded as served, with the ids it logged out or in
Answer(handler, method, cookie, status, call, out) ==
  answer' = [NoAnswer EXCEPT !.handler = handler, !.method = method,
                             !.cookie = cookie, !.status = status,
                             !.call = call, !.out = out]

\* time passes
Tick ==
  /\ now < MaxTime
  /\ now' = now + 1
  /\ UNCHANGED <<storevars, clients, cleaner, index, answer>>

\* cleaner: the sleep is over; list := the ids in s.clients
CleanerList ==
  /\ cleaner.pc = "sleep"
  /\ cleaner' = [cleaner EXCEPT !.pc = "scan", !.list = DOMAIN clients]
  /\ UNCHANGED <<storevars, clients, now, index, answer>>

\* cleaner: u, ok := s.clients[sid] for the next sid of list, and
\* time.Now().After(u.t)
CleanerCheck ==
  /\ cleaner.pc = "scan"
  /\ \E sid \in cleaner.list :
       cleaner' = [cleaner EXCEPT
                     !.list = @ \ {sid},
                     !.sid = sid,
                     !.pc = IF sid \in DOMAIN clients /\ Expired(clients[sid], now)
                            THEN "delete" ELSE "scan"]
  /\ UNCHANGED <<storevars, clients, now, index, answer>>

\* cleaner: delete(s.clients, sid)
CleanerDelete ==
  /\ cleaner.pc = "delete"
  /\ clients' = [s \in DOMAIN clients \ {cleaner.sid} |-> clients[s]]
  /\ cleaner' = [cleaner EXCEPT !.pc = "scan"]
  /\ UNCHANGED <<storevars, now, index, answer>>

\* cleaner: the list is done; time.Sleep
CleanerSleeps ==
  /\ cleaner.pc = "scan"
  /\ cleaner.list = {}
  /\ cleaner' = Asleep
  /\ UNCHANGED <<storevars, clients, now, index, answer>>

\* /challenge/tiddlywebplugins.tiddlyspace.cookie_form; without a cookie
\* genSID returns an id that no session has
ServeLogin(method, cookie, user, pwd) ==
  \E fresh \in (IF GetSID(cookie).err # NoErr THEN GenSids \ DOMAIN clients
                ELSE {EmptyCookie}) :
  \E r \in {login(clients, method, cookie, user, pwd, fresh, now)} :
      /\ last.op # "Open"
      /\ clients' = r.clients
      /\ answer' = [NoAnswer EXCEPT
                      !.handler = "login", !.method = method, !.cookie = cookie,
                      !.user = user, !.pwd = pwd, !.status = r.status,
                      !.out = IF r.ok /\ GetSID(cookie).err = NoErr
                              THEN answer.out \ {GetSID(cookie).sid}
                              ELSE answer.out]
      /\ UNCHANGED <<storevars, now, cleaner, index>>

\* /logout
ServeLogout(method, cookie) ==
  \E r \in {logout(clients, method, cookie)} :
      /\ last.op # "Open"
      /\ clients' = r.clients
      /\ Answer("logout", method, cookie, r.status, "none",
                IF method = "POST" /\ GetSID(cookie).err = NoErr
                THEN answer.out \cup {GetSID(cookie).sid} ELSE answer.out)
      /\ UNCHANGED <<storevars, now, cleaner, index>>

\* /recipes/all/tiddlers.json: renew the session, then StoreDb.All
ServeList(cookie) ==
  /\ StoreDbAll
  /\ clients' = IF GetSID(cookie).err = NoErr
                THEN Start(clients, cookie, EmptyCookie, now).clients
                ELSE clients
  /\ Answer("list", "GET", cookie, StatusOK, "All", answer.out)
  /\ UNCHANGED <<now, cleaner, index>>

\* GET /recipes/all/tiddlers/<key>: getTiddler calls internalError for
\* every error of StoreDb.Get
ServeGetTiddler(cookie, key) ==
  /\ StoreDbGet(key)
  /\ answer' = [NoAnswer EXCEPT
                  !.handler = "tiddler", !.method = "GET", !.cookie = cookie,
                  !.status = IF last'.err # NoErr THEN StatusInternalServerError
                             ELSE StatusOK,
                  !.logged = last'.err # NoErr,
                  !.call = "Get", !.out = answer.out]
  /\ UNCHANGED <<clients, now, cleaner, index>>

\* PUT /recipes/all/tiddlers/<key>: checkAuth, then putTiddler
ServePutTiddler(cookie, key, buf) ==
  \E a \in {checkAuth(clients, cookie, now)} :
      /\ last.op # "Open"
      /\ clients' = a.clients
      /\ IF a.ok
         THEN /\ StoreDbPut(key, buf, FALSE)
              /\ Answer("tiddler", "PUT", cookie,
                        IF last'.err # NoErr THEN StatusInternalServerError
                        ELSE StatusNoContent, "Put", answer.out)
         ELSE /\ Answer("tiddler", "PUT", cookie, a.status, "none", answer.out)
              /\ UNCHANGED storevars
      /\ UNCHANGED <<now, cleaner, index>>

\* /bags/bag/tiddlers/<key>: only DELETE, checkAuth, then StoreDb.Delete
ServeRemove(method, cookie, key) ==
  \E a \in {checkAuth(clients, cookie, now)} :
      /\ last.op # "Open"
      /\ IF method # "DELETE"
         THEN /\ Answer("remove", method, cookie, StatusMethodNotAllowed, "none",
                        answer.out)
              /\ UNCHANGED <<storevars, clients>>
         ELSE /\ clients' = a.clients
              /\ IF a.ok
                 THEN /\ StoreDbDelete(key, FALSE)
                      /\ Answer("remove", method, cookie,
                                IF last'.err # NoErr THEN StatusInternalServerError
                                ELSE StatusNoContent, "Delete", answer.out)
                 ELSE /\ Answer("remove", method, cookie, a.status, "none",
                                answer.out)
                      /\ UNCHANGED storevars
      /\ UNCHANGED <<now, cleaner, index>>

\* PUT /: checkAuth, then index.html is overwritten with the body
ServePutIndex(cookie, body) ==
  \E a \in {checkAuth(clients, cookie, now)} :
      /\ last.op # "Open"
      /\ clients' = a.clients
      /\ index' = IF a.ok THEN body ELSE index
      /\ Answer("index", "PUT", cookie, IF a.ok THEN StatusOK ELSE a.status,
                IF a.ok THEN "WriteFile" ELSE "none", answer.out)
      /\ UNCHANGED <<storevars, now, cleaner>>

\* a client that edits one plain title, on the bbolt store
InitSession ==
  /\ Opened
  /\ backend = "bbolt"
  /\ titles = { <<"a">> }
  /\ kinds = {"plain"}
  /\ supplied = [k \in titles |-> Nil]
  /\ removed = [k \in titles |-> 0]

\* the cookies of the requests other than the PUT of a title: none, or a
\* session id
SentCookies == {Nil} \cup {Some(sid) : sid \in Sids}

\* the form values and index pages the clients send
Users == {"u"}

Passwords == {"pw", "no"}

Pages == {"page"}

NextSession ==
  \/ SetMaxHistory(0)
  \/ Tick
  \/ CleanerList
  \/ CleanerCheck
  \/ CleanerDelete
  \/ CleanerSleeps
  \/ \E cookie \in SentCookies : \E user \in Users : \E pwd \in Passwords :
       ServeLogin("POST", cookie, user, pwd)
  \/ \E method \in {"POST", "GET"} : \E cookie \in SentCookies :
       ServeLogout(method, cookie)
  \/ \E cookie \in Cookies : \E key \in titles : \E buf \in Bodies(key) :
       ServePutTiddler(cookie, key, buf)
  \/ \E method \in {"DELETE", "GET"} : \E cookie \in SentCookies : \E key \in titles :
       ServeRemove(method, cookie, key)
  \/ \E cookie \in SentCookies : \E body \in Pages : ServePutIndex(cookie, body)

SpecSession == InitSession /\ [][NextSession]_vars

\* a client that reads and lists the titles it edits, logging in and out
InitRead ==
  /\ Opened
  /\ titles = { <<"a">> }
  /\ kinds = {"plain"}
  /\ supplied = [k \in titles |-> Nil]
  /\ removed = [k \in titles |-> 0]

NextRead ==
  \/ SetMaxHistory(-1)
  \/ \E cookie \in Cookies : \E user \in Users : \E pwd \in Passwords :
       ServeLogin("POST", cookie, user, pwd)
  \/ \E cookie \in Cookies : ServeList(cookie)
  \/ \E cookie \in Cookies : \E key \in titles : ServeGetTiddler(cookie, key)
  \/ \E cookie \in Cookies : \E key \in titles : \E buf \in Bodies(key) :
       ServePutTiddler(cookie, key, buf)
  \/ \E cookie \in Cookies : \E key \in titles :
       ServeRemove("DELETE", cookie, key)

SpecRead == InitRead /\ [][NextRead]_vars

(* ------------------------- concurrent requests ------------------------- *)
(* net/http runs every request in its own goroutine and all of them call   *)
(* the one StoreDb.  A step is one transaction (bbolt), one SQL statement  *)
(* (sqlite) or one file-system call (flatFile); ioutil.WriteFile is two:   *)
(* the open that truncates the file and the write of the bytes.            *)

Executing(p) == procs[p].pc # "idle"

CallCount == procs["p"].n + procs["q"].n

\* goroutine p starts to serve a request: call op on key with argument arg
Invoke(p, op, key, arg) ==
  /\ last.op # "Open"
  /\ ~Executing(p)
  /\ CallCount < MaxCalls
  /\ procs' = [q \in Procs |->
       IF q = p
       THEN [NoRequest EXCEPT !.pc = "start", !.op = op, !.key = key,
                              !.arg = arg, !.n = procs[p].n + 1,
                              !.with = {<<r, procs[r].n>> :
                                          r \in {x \in Procs \ {p} : Executing(x)}}]
       ELSE IF Executing(q)
            THEN [procs[q] EXCEPT !.with = @ \cup {<<p, procs[p].n + 1>>}]
            ELSE procs[q]]
  /\ UNCHANGED <<web, backendlist, opened, backend, maxRev, tiddlers, history, last, supplied, removed,
                 titles, kinds, config, txlog>>

\* PUT /recipes/all/tiddlers/<key> arrives
InvokePut(p, key, buf) == Invoke(p, "Put", key, Some(putTiddler(key, buf)))

\* GET /recipes/all/tiddlers/<key> arrives
InvokeGet(p, key) == Invoke(p, "Get", key, Nil)

\* DELETE /bags/bag/tiddlers/<key> arrives
InvokeDelete(p, key) == Invoke(p, "Delete", key, Nil)

\* the backend method returns to the handler
Return(p) ==
  /\ procs[p].pc = "done"
  /\ procs' = [procs EXCEPT ![p].pc = "idle"]
  /\ UNCHANGED <<web, backendlist, opened, backend, maxRev, tiddlers, history, last, supplied, removed,
                 titles, kinds, config, txlog>>

\* goroutine p is at step pc of method op of backend b
At(p, b, op, pc) ==
  backend = b /\ procs[p].op = op /\ procs[p].pc = pc

\* p moves to step pc with its record changed to rec
Goto(p, rec, pc) == procs' = [procs EXCEPT ![p] = [rec EXCEPT !.pc = pc]]

\* p finishes its method with revision ret, error err and tiddler res
Finish(p, ret, err, res) ==
  procs' = [procs EXCEPT ![p] = [@ EXCEPT !.pc = "done", !.ret = ret,
                                          !.err = err, !.res = res]]

\* ---- bbolt: each method is one db.Update or db.View transaction

BoltPut(p) ==
  /\ At(p, "bbolt", "Put", "start")
  /\ \E r \in {boltStore_Put(tiddlers, history, maxRev, Val(procs[p].arg), FALSE)} :
       /\ tiddlers' = r.tiddlers
       /\ history' = r.history
       /\ procs' = [procs EXCEPT ![p] = [@ EXCEPT !.pc = "done", !.ret = r.rev,
                                                !.err = r.err,
                                                !.epoch = txlog.deletes]]
       /\ txlog' = [txlog EXCEPT
            !.since = Append(@, r.rev),
            !.pairs = @ \cup {<<r.tiddlers[procs[p].key \o MetaKeySuffix],
                                r.tiddlers[procs[p].key \o TextKeySuffix]>>}]
  /\ UNCHANGED <<web, backendlist, opened, backend, maxRev, last, supplied, removed, titles, kinds, config>>

BoltGet(p) ==
  /\ At(p, "bbolt", "Get", "start")
  /\ \E r \in {boltStore_Get(tiddlers, procs[p].key)} : Finish(p, 0, r.err, r.res)
  /\ UNCHANGED <<web, backendlist, opened, backend, maxRev, tiddlers, history, last, supplied, removed,
                 titles, kinds, config, txlog>>

BoltDelete(p) ==
  /\ At(p, "bbolt", "Delete", "start")
  /\ \E r \in {boltStore_Delete(tiddlers, history, procs[p].key, FALSE)} :
       /\ tiddlers' = r.tiddlers
       /\ history' = r.history
       /\ Finish(p, 0, r.err, Nil)
  /\ txlog' = [txlog EXCEPT !.since = <<>>, !.deletes = @ + 1]
  /\ UNCHANGED <<web, backendlist, opened, backend, maxRev, last, supplied, removed, titles, kinds, config>>

\* ---- sqlite: the statements run on s.db, each in its own implicit
\* transaction; the transaction tx that Put begins and commits holds none

\* rev := getLastRevision(s.db, tiddler.Key) + 1
SqlPutRead(p) ==
  /\ At(p, "sqlite", "Put", "start")
  /\ Goto(p, [procs[p] EXCEPT
               !.rev = sqlite_getLastRevision(tiddlers, procs[p].key) + 1],
          "upsert")
  /\ UNCHANGED <<web, backendlist, opened, backend, maxRev, tiddlers, history, last, supplied, removed,
                 titles, kinds, config, txlog>>

\* the row Put writes for the tiddler of p at the revision p computed
SqlRow(p) ==
  LET t   == Val(procs[p].arg)
      js1 == SetField(Val(t.Js), "revision", procs[p].rev)
  IN  Row(t.Key, Marshal(DelField(js1, "text")), TextOf(js1), procs[p].rev)

\* INSERT INTO tiddler ... ON CONFLICT(title) DO UPDATE
SqlPutUpsert(p) ==
  /\ At(p, "sqlite", "Put", "upsert")
  /\ tiddlers' = Upsert(tiddlers, SqlRow(p))
  /\ LET t    == Val(procs[p].arg)
         keep == maxRev # 0 /\ ~t.IsDraft /\ ~t.IsSys
     IN  IF ~keep THEN Finish(p, procs[p].rev, NoErr, Nil)
         ELSE IF maxRev > 0 /\ procs[p].rev - maxRev > 1
         THEN Goto(p, procs[p], "trim")
         ELSE Goto(p, procs[p], "insert")
  /\ txlog' = [txlog EXCEPT !.since = Append(@, procs[p].rev)]
  /\ UNCHANGED <<web, backendlist, opened, backend, maxRev, history, last, supplied, removed, titles,
                 kinds, config>>

\* s.trimRevision(tiddler.Key, rev - 1 - s.maxRev)
SqlPutTrim(p) ==
  /\ At(p, "sqlite", "Put", "trim")
  /\ history' = sqliteStore_trimRevision(history, procs[p].key,
                                         procs[p].rev - 1 - maxRev, FALSE).store
  /\ Goto(p, procs[p], "insert")
  /\ UNCHANGED <<web, backendlist, opened, backend, maxRev, tiddlers, last, supplied, removed, titles,
                 kinds, config, txlog>>

\* INSERT INTO tiddler_history, then tx.Commit()
SqlPutInsert(p) ==
  /\ At(p, "sqlite", "Put", "insert")
  /\ history' = Append(history, SqlRow(p))
  /\ Finish(p, procs[p].rev, NoErr, Nil)
  /\ UNCHANGED <<web, backendlist, opened, backend, maxRev, tiddlers, last, supplied, removed, titles,
                 kinds, config, txlog>>

SqlGet(p) ==
  /\ At(p, "sqlite", "Get", "start")
  /\ \E r \in {sqliteStore_Get(tiddlers, procs[p].key)} : Finish(p, 0, r.err, r.res)
  /\ UNCHANGED <<web, backendlist, opened, backend, maxRev, tiddlers, history, last, supplied, removed,
                 titles, kinds, config, txlog>>

\* DELETE FROM tiddler WHERE title = ?
SqlDeleteTiddler(p) ==
  /\ At(p, "sqlite", "Delete", "start")
  /\ tiddlers' = DeleteTitle(tiddlers, procs[p].key)
  /\ IF maxRev = 0 THEN Finish(p, 0, NoErr, Nil)
     ELSE Goto(p, procs[p], "deleteHistory")
  /\ txlog' = [txlog EXCEPT !.since = <<>>, !.deletes = @ + 1]
  /\ UNCHANGED <<web, backendlist, opened, backend, maxRev, history, last, supplied, removed, titles,
                 kinds, config>>

\* DELETE FROM tiddler_history WHERE title = ?
SqlDeleteHistory(p) ==
  /\ At(p, "sqlite", "Delete", "deleteHistory")
  /\ history' = DeleteTitle(history, procs[p].key)
  /\ Finish(p, 0, NoErr, Nil)
  /\ UNCHANGED <<web, backendlist, opened, backend, maxRev, tiddlers, last, supplied, removed, titles,
                 kinds, config, txlog>>

\* ---- flatFile: plain file-system calls, no lock

\* the bytes of a file that was opened with O_TRUNC and not yet written:
\* no metadata member, no body byte
Truncated(name) == IF HasSuffix(name, MetaExt) THEN <<>> ELSE ""

\* the error of json.Unmarshal in NewTiddler on the bytes of a truncated file
ErrJSON == "unexpected end of JSON input"

\* key := key2File(tiddler.Key); rev := getLastRevision(s, key) + 1
FlatPutRead(p) ==
  /\ At(p, "flatFile", "Put", "start")
  /\ LET t   == Val(procs[p].arg)
         rec == [procs[p] EXCEPT
                   !.rev = flat_getLastRevision(tiddlers, key2File(t.Key)) + 1]
     IN  IF t.IsSys THEN Goto(p, rec, "truncMeta")
         ELSE IF ~t.IsDraft /\ maxRev # 0 THEN Goto(p, rec, "history")
         ELSE Goto(p, rec, "truncTid")
  /\ UNCHANGED <<web, backendlist, opened, backend, maxRev, tiddlers, history, last, supplied, removed,
                 titles, kinds, config, txlog>>

\* the document of p's Put with the revision p computed
FlatData(p) ==
  SetField(Val(Val(procs[p].arg).Js), "revision", procs[p].rev)

\* s.trimRevision(key, rev) unless maxRev is -1, then the history file
FlatPutHistory(p) ==
  /\ At(p, "flatFile", "Put", "history")
  /\ LET key == key2File(procs[p].key)
         hf  == IF maxRev = -1 THEN history
                ELSE flatFileStore_trimRevision(history, maxRev, key, procs[p].rev)
     IN  history' = WriteFile(hf, HistoryName(key, procs[p].rev),
                              Marshal(FlatData(p)))
  /\ Goto(p, procs[p], "truncTid")
  /\ UNCHANGED <<web, backendlist, opened, backend, maxRev, tiddlers, last, supplied, removed, titles,
                 kinds, config, txlog>>

\* ioutil.WriteFile, first half: open(O_WRONLY|O_CREATE|O_TRUNC) of the .tid
\* file or of the .meta file
FlatPutTruncate(p) ==
  /\ backend = "flatFile" /\ procs[p].op = "Put"
  /\ procs[p].pc \in {"truncTid", "truncMeta"}
  /\ LET key  == key2File(procs[p].key)
         name == key \o (IF procs[p].pc = "truncTid" THEN TidExt ELSE MetaExt)
     IN  tiddlers' = WriteFile(tiddlers, name, Truncated(name))
  /\ Goto(p, procs[p], IF procs[p].pc = "truncTid" THEN "writeTid" ELSE "writeMeta")
  /\ UNCHANGED <<web, backendlist, opened, backend, maxRev, history, last, supplied, removed, titles,
                 kinds, config, txlog>>

\* ioutil.WriteFile, second half: the write of the bytes; after the .meta
\* file Put returns rev
FlatPutWrite(p) ==
  /\ backend = "flatFile" /\ procs[p].op = "Put"
  /\ procs[p].pc \in {"writeTid", "writeMeta"}
  /\ LET key == key2File(procs[p].key)
         t   == Val(procs[p].arg)
     IN  IF procs[p].pc = "writeTid"
         THEN /\ tiddlers' = WriteFile(tiddlers, key \o TidExt, TextOf(FlatData(p)))
              /\ Goto(p, procs[p], "truncMeta")
              /\ UNCHANGED txlog
         ELSE /\ tiddlers' = WriteFile(tiddlers, key \o MetaExt,
                               IF t.IsSys THEN Marshal(FlatData(p))
                               ELSE Marshal(DelField(FlatData(p), "text")))
              /\ Finish(p, procs[p].rev, NoErr, Nil)
              /\ txlog' = [txlog EXCEPT !.since = Append(@, procs[p].rev)]
  /\ UNCHANGED <<web, backendlist, opened, backend, maxRev, history, last, supplied, removed, titles,
                 kinds, config>>

\* os.Stat(tiddlerMetaPath)
FlatGetStat(p) ==
  /\ At(p, "flatFile", "Get", "start")
  /\ IF ~Exists(tiddlers, key2File(procs[p].key) \o MetaExt)
     THEN Finish(p, 0, ErrNotFound, Nil)
     ELSE Goto(p, procs[p], "readMeta")
  /\ UNCHANGED <<web, backendlist, opened, backend, maxRev, tiddlers, history, last, supplied, removed,
                 titles, kinds, config, txlog>>

\* meta, err := ioutil.ReadFile(tiddlerMetaPath)
FlatGetReadMeta(p) ==
  /\ At(p, "flatFile", "Get", "readMeta")
  /\ LET name == key2File(procs[p].key) \o MetaExt
     IN  IF ~Exists(tiddlers, name) THEN Finish(p, 0, ErrNotExist, Nil)
         ELSE IF HasPrefix(procs[p].key, SysPrefix)
         THEN Finish(p, 0, NoErr, Some(NewTiddler(tiddlers[name], Nil)))
         ELSE Goto(p, [procs[p] EXCEPT !.meta = Some(tiddlers[name])], "readTid")
  /\ UNCHANGED <<web, backendlist, opened, backend, maxRev, tiddlers, history, last, supplied, removed,
                 titles, kinds, config, txlog>>

\* tiddler, err = ioutil.ReadFile(tiddlerPath); store.NewTiddler(meta, tiddler)
FlatGetReadTid(p) ==
  /\ At(p, "flatFile", "Get", "readTid")
  /\ LET name == key2File(procs[p].key) \o TidExt
         meta == Val(procs[p].meta)
     IN  IF ~Exists(tiddlers, name) THEN Finish(p, 0, ErrNotExist, Nil)
         ELSE IF Len(meta) = 0 THEN Finish(p, 0, ErrJSON, Nil)
         ELSE Finish(p, 0, NoErr, Some(NewTiddler(meta, Some(tiddlers[name]))))
  /\ UNCHANGED <<web, backendlist, opened, backend, maxRev, tiddlers, history, last, supplied, removed,
                 titles, kinds, config, txlog>>

\* os.Remove of the .meta file
FlatDeleteMeta(p) ==
  /\ At(p, "flatFile", "Delete", "start")
  /\ LET name == key2File(procs[p].key) \o MetaExt
     IN  IF ~Exists(tiddlers, name)
         THEN Finish(p, 0, ErrNotExist, Nil) /\ UNCHANGED <<tiddlers, txlog>>
         ELSE /\ tiddlers' = DelField(tiddlers, name)
              /\ Goto(p, procs[p], "removeTid")
              /\ txlog' = [txlog EXCEPT !.since = <<>>, !.deletes = @ + 1]
  /\ UNCHANGED <<web, backendlist, opened, backend, maxRev, history, last, supplied, removed, titles,
                 kinds, config>>

\* os.Remove of the .tid file
FlatDeleteTid(p) ==
  /\ At(p, "flatFile", "Delete", "removeTid")
  /\ LET name == key2File(procs[p].key) \o TidExt
     IN  IF ~Exists(tiddlers, name)
         THEN Finish(p, 0, ErrNotExist, Nil) /\ UNCHANGED tiddlers
         ELSE tiddlers' = DelField(tiddlers, name) /\ Finish(p, 0, NoErr, Nil)
  /\ UNCHANGED <<web, backendlist, opened, backend, maxRev, history, last, supplied, removed, titles,
                 kinds, config, txlog>>

\* ---- the three servers under concurrent requests for one title

\* a freshly opened store of backend b and clients that edit one plain title
InitConcurrent(b) ==
  /\ Opened
  /\ backend = b
  /\ titles = { <<"a">> }
  /\ kinds = {"plain", "draft"}
  /\ supplied = [k \in titles |-> Nil]
  /\ removed = [k \in titles |-> 0]

\* the requests arriving and returning
Requests ==
  \/ \E rev \in -1..MaxHistory : SetMaxHistory(rev)
  \/ \E p \in Procs : \E key \in titles : \E buf \in Bodies(key) :
       InvokePut(p, key, buf)
  \/ \E p \in Procs : \E key \in titles : InvokeGet(p, key)
  \/ \E p \in Procs : \E key \in titles : InvokeDelete(p, key)
  \/ \E p \in Procs : Return(p)

NextBolt ==
  \/ Requests
  \/ \E p \in Procs : BoltPut(p)
  \/ \E p \in Procs : BoltGet(p)
  \/ \E p \in Procs : BoltDelete(p)

SpecBolt == InitConcurrent("bbolt") /\ [][NextBolt]_vars

NextSqlite ==
  \/ Requests
  \/ \E p \in Procs : SqlPutRead(p)
  \/ \E p \in Procs : SqlPutUpsert(p)
  \/ \E p \in Procs : SqlPutTrim(p)
  \/ \E p \in Procs : SqlPutInsert(p)
  \/ \E p \in Procs : SqlGet(p)
  \/ \E p \in Procs : SqlDeleteTiddler(p)
  \/ \E p \in Procs : SqlDeleteHistory(p)

SpecSqlite == InitConcurrent("sqlite") /\ [][NextSqlite]_vars

NextFlat ==
  \/ Requests
  \/ \E p \in Procs : FlatPutRead(p)
  \/ \E p \in Procs : FlatPutHistory(p)
  \/ \E p \in Procs : FlatPutTruncate(p)
  \/ \E p \in Procs : FlatPutWrite(p)
  \/ \E p \in Procs : FlatGetStat(p)
  \/ \E p \in Procs : FlatGetReadMeta(p)
  \/ \E p \in Procs : FlatGetReadTid(p)
  \/ \E p \in Procs : FlatDeleteMeta(p)
  \/ \E p \in Procs : FlatDeleteTid(p)

SpecFlat == InitConcurrent("flatFile") /\ [][NextFlat]_vars

(* ------------------------- registering, opening ----------------------- *)

\* the empty store a constructor returns
EmptyStore(b) == IF b = "sqlite" THEN <<>> ELSE EmptyBucket

\* no store is open and no request is served
Unopened ==
  /\ opened = <<>>
  /\ backend = "none"
  /\ maxRev = -1
  /\ tiddlers = <<>>
  /\ history = <<>>
  /\ titles = {}
  /\ kinds = {}
  /\ supplied = [k \in titles |-> Nil]
  /\ removed = [k \in titles |-> 0]
  /\ config = [starts |-> 0, rev |-> -1]
  /\ procs = [p \in Procs |-> NoRequest]
  /\ txlog = [since |-> <<>>, deletes |-> 0, pairs |-> {}]
  /\ NoSessions

\* the process before any backend package has registered
InitRegistry ==
  /\ Unopened
  /\ backendlist = EmptyList
  /\ last = NoCall

\* a package calls store.RegBackend(nameo, fn)
RegBackend(nameo, fn) ==
  \E r \in {store_RegBackend(backendlist, nameo, fn)} :
      /\ backendlist' = r.list
      /\ last' = [NoCall EXCEPT !.op = "RegBackend", !.key = nameo,
                                !.arg = fn, !.err = r.err]
      /\ UNCHANGED <<web, opened, backend, maxRev, tiddlers, history, supplied,
                     removed, titles, kinds, config, procs, txlog>>

\* store.Open(name, dataSource), with the answer ioErr of the substrate to
\* the constructor; a constructor that succeeds returns an empty store with
\* maxRev -1
OpenStore(name, dataSource, ioErr) ==
  \E r \in {store_Open(backendlist, name, dataSource, ioErr)} :
      /\ ~IsNil(r.called) => Len(opened) < MaxOpens
      /\ opened' = IF IsNil(r.called) THEN opened
                   ELSE Append(opened, Val(r.called))
      /\ last' = [NoCall EXCEPT !.op = "store.Open", !.key = name,
                                !.arg = Some(<<dataSource, ioErr>>),
                                !.res = r.res, !.err = r.err]
      /\ IF IsNil(r.res)
         THEN UNCHANGED <<backend, maxRev, tiddlers, history>>
         ELSE /\ backend' = Val(r.res).store
              /\ maxRev' = -1
              /\ tiddlers' = EmptyStore(Val(r.res).store)
              /\ history' = EmptyStore(Val(r.res).store)
      /\ UNCHANGED <<web, backendlist, supplied, removed, titles, kinds, config,
                     procs, txlog>>

\* the names passed to RegBackend, and to Open (which is also called with the
\* empty name, to list the backends)
RegNames == {bolt_TypeName, flatFile_TypeName, ToLower(flatFile_TypeName)}

OpenNames == RegNames \cup {<<>>}

\* the functions passed to RegBackend
RegFns == {Nil, Some("bbolt"), Some("flatFile")}

NextRegistry ==
  \/ \E nameo \in RegNames : \E fn \in RegFns : RegBackend(nameo, fn)
  \/ \E name \in OpenNames : \E ioErr \in {NoErr, ErrIO} :
       OpenStore(name, DataSource, ioErr)

SpecRegistry == InitRegistry /\ [][NextRegistry]_vars

(* ------------------------- looking up revisions ----------------------- *)

\* metadata objects of title key as a data source may hold them: with or
\* without tags, with or without a revision
MetaObjects(key) ==
  LET base == [title |-> key, bag |-> "bag"]
      tagged == {base, SetField(base, "tags", "")}
  IN  tagged \cup {SetField(js, "revision", r) : js \in tagged, r \in 1..MaxRevision}

\* the bytes of a metadata record: an object, no bytes at all, or an object
\* cut off inside its revision member
MetaInputs(key) ==
  {Marshal(js) : js \in MetaObjects(key)}
    \cup {<<>>, << <<"bag", "bag">>, <<"revision">> >>}

\* a store of backend b that holds meta as the metadata of title key; a row
\* of table tiddler carries the revision in its column as well
StoreHolding(b, key, meta) ==
  CASE b = "bbolt" -> BucketPut(EmptyBucket, key \o MetaKeySuffix, meta)
    [] b = "flatFile" -> WriteFile(EmptyDir, key2File(key) \o MetaExt, meta)
    [] b = "sqlite" -> <<Row(key, meta, "", RevisionOf(meta))>>

\* the metadata bytes stored for title key, nil when there are none
StoredMeta(t, key) ==
  CASE backend = "bbolt" -> BucketGet(t, key \o MetaKeySuffix)
    [] backend = "flatFile" -> ReadFile(t, key2File(key) \o MetaExt)
    [] backend = "sqlite" ->
         IF Len(RowsOf(t, key)) = 0 THEN Nil ELSE Some(RowsOf(t, key)[1].meta)

\* getLastRevision of the open backend for title key
StoreLastRevision(t, key) ==
  CASE backend = "bbolt" -> bolt_getLastRevision(t, key \o MetaKeySuffix)
    [] backend = "flatFile" -> flat_getLastRevision(t, key2File(key))
    [] backend = "sqlite" -> sqlite_getLastRevision(t, key)

\* the metadata records title key can have in a data source of backend b;
\* table tiddler carries the revision in a column, so its row has one
RecordsOf(b, key) ==
  {meta \in MetaInputs(key) :
     b = "sqlite" => Parses(meta) /\ "revision" \in DOMAIN Unmarshal(meta)}

\* a store opened on a data source that holds nothing, or one metadata record
InitLookup ==
  /\ backendlist = Registered
  /\ backend \in Backends
  /\ opened = << <<backend, DataSource>> >>
  /\ maxRev = -1
  /\ titles \in {{k} : k \in Keys}
  /\ tiddlers \in {EmptyStore(backend)}
        \cup UNION {{StoreHolding(backend, key, meta) :
                       meta \in RecordsOf(backend, key)} : key \in titles}
  /\ history = EmptyStore(backend)
  /\ last = NoCall
  /\ config = [starts |-> 0, rev |-> -1]
  /\ procs = [p \in Procs |-> NoRequest]
  /\ txlog = [since |-> <<>>, deletes |-> 0, pairs |-> {}]
  /\ NoSessions
  /\ kinds = {}
  /\ supplied = [k \in titles |-> Nil]
  /\ removed = [k \in titles |-> 0]

\* t.GetRevision() on the tiddler made of the stored metadata of title key
LookupGetRevision(key) ==
  \E meta \in {StoredMeta(tiddlers, key)} :
  \E t \in {IF IsNil(meta) THEN Tiddler(Nil, <<>>, FALSE, FALSE, Nil)
             ELSE NewTiddler(Val(meta), Nil)} :
      /\ last' = [NoCall EXCEPT !.op = "GetRevision", !.key = key,
                                !.rev = GetRevision(t)]
      /\ UNCHANGED <<web, backendlist, opened, backend, maxRev, tiddlers, history,
                     supplied, removed, titles, kinds, config, procs, txlog>>

\* getLastRevision of the backend for title key
LookupLastRevision(key) ==
  /\ last' = [NoCall EXCEPT !.op = "getLastRevision", !.key = key,
                            !.rev = StoreLastRevision(tiddlers, key)]
  /\ UNCHANGED <<web, backendlist, opened, backend, maxRev, tiddlers, history,
                 supplied, removed, titles, kinds, config, procs, txlog>>

NextLookup ==
  \/ \E key \in titles : LookupGetRevision(key)
  \/ \E key \in titles : LookupLastRevision(key)

SpecLookup == InitLookup /\ [][NextLookup]_vars

(* ----------------------- encoding and decoding ------------------------ *)

\* the bodies a stored tiddler can have
Texts == {"", "hello"}

\* the tiddlers with text of title key: what Get makes of stored metadata and
\* a body, and what Put holds of a request body once it has set the revision
FatTiddlers(key) ==
  {NewTiddler(Marshal(js), Some(text)) : js \in MetaObjects(key), text \in Texts}
    \cup {[t EXCEPT !.Js = Some(SetField(Val(t.Js), "revision", r))] :
            t \in {putTiddler(key, Body(key, kind)) : kind \in {"plain", "macro"}},
            r \in 2..MaxRevision}

\* a tiddler with text is at hand; no store is involved
InitCodec ==
  /\ Unopened
  /\ backendlist = Registered
  /\ \E key \in Keys : \E t \in FatTiddlers(key) :
       last = [NoCall EXCEPT !.arg = Some(t)]

\* t.MarshalJSON()
Encode ==
  /\ last.op = "Open"
  /\ last' = [last EXCEPT !.op = "MarshalJSON",
                          !.data = Some(MarshalJSON(Val(last.arg)))]
  /\ UNCHANGED <<web, backendlist, opened, backend, maxRev, tiddlers, history,
                 supplied, removed, titles, kinds, config, procs, txlog>>

\* store.NewTiddler(data, text) on the bytes MarshalJSON returned, with a nil
\* text or with the text member of the bytes
Decode(withText) ==
  /\ last.op = "MarshalJSON"
  /\ \E data \in {Val(last.data)} :
     \E text \in {IF withText THEN Some(TextOf(Unmarshal(data))) ELSE Nil} :
       last' = [last EXCEPT !.op = "NewTiddler",
                            !.res = Some(NewTiddler(data, text))]
  /\ UNCHANGED <<web, backendlist, opened, backend, maxRev, tiddlers, history,
                 supplied, removed, titles, kinds, config, procs, txlog>>

NextCodec ==
  \/ Encode
  \/ \E withText \in BOOLEAN : Decode(withText)

SpecCodec == InitCodec /\ [][NextCodec]_vars

(* ------------------------------- claims -------------------------------- *)

\* the last call was a successful Put
PutDone == last.op = "Put" /\ last.err = NoErr

\* the title of the last call was never written: it has no current value and
\* no Delete ever removed one
NeverWritten(key) == ~Present(tiddlers, key) /\ removed[key] = 0

\* C1: the first Put of a never-written key returns revision 1, and a Put of a
\* key that has a current value (no Delete since its last Put) returns the
\* current revision plus one, so N sequential Puts return 1, 2, ..., N.
C1_SequentialPutsCountFromOne ==
  PutDone =>
    /\ (last.prev = 0 /\ last.removed = 0) => last.rev = 1
    /\ last.prev > 0 => last.rev = last.prev + 1

\* C2 as claimed: a Put that follows a Delete of the key returns a revision
\* strictly greater than every revision returned before, in particular than
\* the revision the Delete removed.
C2_RevisionSurvivesDelete ==
  (PutDone /\ last.removed > 0) => last.rev > last.removed

\* C2 as amended: Delete removes the revision counter with the current value,
\* so the Put that follows a Delete returns 2, the revision of the first Put
\* of a never-written key, which is never above the revision removed.
C2_RevisionRestartsAfterDelete ==
  (PutDone /\ last.removed > 0) => (last.rev = 2 /\ last.rev <= last.removed)

\* a key was put at least twice, deleted and put again
C2_Witness == PutDone /\ last.removed > 2

\* C3: a Get that immediately follows a Put of the same key succeeds and the
\* revision field of what it returns is the revision the Put returned.
C3_GetSeesPutRevision ==
  (last.op = "Get" /\ last.justPut > 0) =>
    /\ last.err = NoErr
    /\ ~IsNil(last.res)
    /\ RevisionField(Val(last.res)) = last.justPut

\* a Get right after the second or a later Put of its key
C3_Witness == last.op = "Get" /\ last.justPut > 2 /\ last.err = NoErr

\* the document a Get result serialises to, as the handler getTiddler writes it
Document(t) == Unmarshal(MarshalJSON(t))

\* C4: while the last operation on a key is a Put, Get of the key succeeds and
\* returns the metadata fields and the body text that Put was given; the body
\* is missing only for a system key that was put without one.
C4_GetReturnsLatestPut ==
  \A k \in Keys : ~IsNil(supplied[k]) =>
    LET g == StoreGet(tiddlers, k)
        js == Val(supplied[k])
    IN  /\ g.err = NoErr
        /\ ~IsNil(g.res)
        /\ LET d == Document(Val(g.res))
           IN  /\ DelField(DelField(d, "text"), "revision") = DelField(js, "text")
               /\ IF "text" \in DOMAIN d THEN d["text"] = TextOf(js)
                  ELSE HasPrefix(k, SysPrefix) /\ "text" \notin DOMAIN js

\* a key was put with one document and then with the other, and another
\* call followed
C4_Witness ==
  \E k \in Keys :
    /\ ~IsNil(supplied[k])
    /\ CurrentRevision(tiddlers, k) > 2
    /\ "tags" \in DOMAIN Val(supplied[k])
    /\ last.op = "Get" /\ last.key = k

\* C5: Get of a key that was never written returns store.ErrNotFound and no
\* tiddler.
C5_GetNeverWrittenIsNotFound ==
  (last.op = "Get" /\ NeverWritten(last.key)) =>
    (last.err = ErrNotFound /\ IsNil(last.res))

\* C6: after Delete removed the current value of a key, a Get of the key
\* before the next Put returns store.ErrNotFound and no tiddler.
C6_GetAfterDeleteIsNotFound ==
  (last.op = "Get" /\ removed[last.key] > 0 /\ ~Present(tiddlers, last.key)) =>
    (last.err = ErrNotFound /\ IsNil(last.res))

\* the last call was a successful Put of a key that is neither a draft nor a
\* system key
PlainPutDone == PutDone /\ ~Val(last.arg).IsDraft /\ ~Val(last.arg).IsSys

\* this step is a Put (every Put stores a new revision)
PutStep == last'.op = "Put" /\ tiddlers' # tiddlers

\* C7: with maxHistory = n > 0 in effect since the store was opened, after a
\* Put of a non-draft, non-system key at most n history entries exist for the
\* key, all of them among the n most recent revisions.
C7_AtMostMaxHistoryEntries ==
  (PlainPutDone /\ maxRev > 0) =>
    /\ Cardinality(HistoryEntries(history, last.key)) <= maxRev
    /\ \A r \in HistoryRevs(history, last.key) : r > last.rev - maxRev

\* C8: a Put of a non-draft, non-system key that returns newRevision under
\* maxHistory = n > 0 leaves exactly the entries written so far (the new one
\* included) whose revision is above newRevision - 1 - n.
C8_TrimRule ==
  [][(PutStep /\ ~Val(last'.arg).IsDraft /\ ~Val(last'.arg).IsSys /\ maxRev > 0)
       => HistoryRevs(history', last'.key) =
            {r \in HistoryRevs(history, last'.key) \cup {last'.rev} :
               r > last'.rev - 1 - maxRev}]_vars

\* C9: with maxHistory = 0 in effect since the store was opened, no history
\* entry exists for any key, whatever was put.
C9_NoHistoryWhenDisabled ==
  (last.op # "Open" /\ maxRev = 0) =>
    \A k \in Keys : HistoryEntries(history, k) = {}

\* a non-draft, non-system key was put twice under maxHistory = 0
C9_Witness == PlainPutDone /\ maxRev = 0 /\ last.rev > 2

\* the history entries of a key as <<revision, content>> pairs
EntrySet(h, key) ==
  IF backend = "sqlite"
  THEN {<<h[i].revision, h[i].meta, h[i].content>> : i \in HistoryEntries(h, key)}
  ELSE {<<EntryRev(n), h[n]>> : n \in HistoryEntries(h, key)}

\* C10: whatever maxHistory is, a Put of a draft adds no history entry: every
\* entry of every key after the Put was there before it.
C10_DraftAddsNoHistory ==
  [][(PutStep /\ Val(last'.arg).IsDraft) =>
       \A k \in Keys :
         /\ EntrySet(history', k) \subseteq EntrySet(history, k)
         /\ Cardinality(HistoryEntries(history', k))
              <= Cardinality(HistoryEntries(history, k))]_vars

\* a draft was put over a key that has history entries, under a limit n > 0
C10_Witness ==
  /\ PutDone /\ Val(last.arg).IsDraft /\ ~Val(last.arg).IsSys
  /\ maxRev > 0
  /\ last.rev > 3
  /\ HistoryEntries(history, last.key) # {}

\* C11: whatever maxHistory is, a Put of a system key (IsSys) adds no history
\* entry for any key, so no history entry ever exists for a key that is only
\* written as a system key.
C11_SystemPutAddsNoHistory ==
  /\ [](\A k \in Keys : HasPrefix(k, SysPrefix) => HistoryEntries(history, k) = {})
  /\ [][(PutStep /\ Val(last'.arg).IsSys) =>
          \A k \in Keys : EntrySet(history', k) = EntrySet(history, k)]_vars

\* a system key was put twice with a non-draft document while history is
\* kept and another key has history entries
C11_Witness ==
  /\ PutDone /\ Val(last.arg).IsSys /\ ~Val(last.arg).IsDraft
  /\ maxRev # 0
  /\ last.rev > 2
  /\ \E k \in Keys : HistoryEntries(history, k) # {}

\* the last operation on title k was a Put
Live(k) == ~IsNil(supplied[k])

\* the positions of the slice all whose entry is a tiddler titled k
EntriesFor(all, k) ==
  {i \in DOMAIN all :
     /\ IsMetaRecord(all[i].metaOf)
     /\ LET d == Document(all[i].t)
        IN  "title" \in DOMAIN d /\ d["title"] = k}

\* the last call was All
AllDone == last.op = "All" /\ last.err = NoErr

\* C12: after any series of Put and Delete calls, the slice All returns has
\* no entry for a title whose last operation was a Delete (nor for one that
\* was never put).
C12_AllOmitsDeleted ==
  AllDone => \A k \in titles : ~Live(k) => EntriesFor(last.all, k) = {}

\* All was called while one title was deleted after a Put and another is live
C12_Witness ==
  /\ AllDone
  /\ \E k \in titles : ~Live(k) /\ removed[k] > 0
  /\ \E k \in titles : Live(k) /\ EntriesFor(last.all, k) # {}

\* entry e carries the metadata stored for title k, and no body but k's
CarriesOwn(e, k) ==
  /\ IsMetaRecord(e.metaOf)
  /\ DelField(DelField(Document(e.t), "text"), "revision")
       = DelField(Val(supplied[k]), "text")
  /\ (e.textOf = Nil \/ e.textOf = Some(TextName(k)))

\* C13: All returns exactly one entry per live title and nothing else, and
\* the entry of a title carries the metadata stored for that title and never
\* the body or metadata of another title.
C13_AllListsEveryLiveTitleOnce ==
  AllDone =>
    /\ Len(last.all) = Cardinality({k \in titles : Live(k)})
    /\ \A k \in titles : Live(k) =>
         /\ Cardinality(EntriesFor(last.all, k)) = 1
         /\ \A i \in EntriesFor(last.all, k) : CarriesOwn(last.all[i], k)

\* title k is live and its metadata carries the macro tag
MacroTagged(k) ==
  Live(k) /\ "tags" \in DOMAIN Val(supplied[k]) /\ Val(supplied[k])["tags"] = MacroTag

\* C14: All returns every live tiddler tagged $:/tags/Macro fat: its entry
\* has the body text stored for the title.
C14_AllReturnsMacrosFat ==
  AllDone =>
    \A k \in titles : MacroTagged(k) =>
      \E i \in EntriesFor(last.all, k) :
        LET e == last.all[i]
            d == Document(e.t)
        IN  /\ "text" \in DOMAIN d
            /\ (e.textOf = Nil \/ e.textOf = Some(TextName(k)))
            /\ d["text"] = TextOf(Val(supplied[k]))

\* C15: All returns every live tiddler that is not tagged as a macro skinny:
\* its entry has no text member, for system titles too.
C15_AllReturnsOthersSkinny ==
  AllDone =>
    \A k \in titles : (Live(k) /\ ~MacroTagged(k)) =>
      \A i \in EntriesFor(last.all, k) :
        "text" \notin DOMAIN Document(last.all[i].t)

\* C19: a failure of history trimming never fails the Put: when trimRevision
\* returns an error, Put still returns the new revision and no error, the new
\* current value is stored and the new history entry is written.
C19_TrimFailureDoesNotFailPut ==
  (last.op = "Put" /\ last.trimErr # NoErr) =>
    /\ last.err = NoErr
    /\ last.rev = last.prev + 1
    /\ CurrentRevision(tiddlers, last.key) = last.rev
    /\ StoreGet(tiddlers, last.key).err = NoErr
    /\ last.rev \in HistoryRevs(history, last.key)

\* a Put whose trimming failed, in bbolt and in sqlite
C19_Witness ==
  /\ last.op = "Put" /\ last.trimErr = ErrDelete
  /\ backend \in {"bbolt", "sqlite"}
  /\ last.rev > 2

\* this step is a call of SetMaxHistory
SetMaxHistoryStep == last'.op = "SetMaxHistory" /\ config' # config

\* C20: SetMaxHistory(n) only changes the configuration: the call leaves
\* every current value and every history entry as they are, and n is the
\* limit in force for every Put and Delete until the next call: under n = 0 a
\* later Put adds no history entry and removes none, under any other n the
\* Put of a plain tiddler adds its entry, under n = -1 it removes none, and
\* history entries only disappear in a Put or Delete step.
C20_SetMaxHistoryOnlyConfigures ==
  /\ [](config.starts > 0 => maxRev = config.rev)
  /\ [][SetMaxHistoryStep => (tiddlers' = tiddlers /\ history' = history)]_vars
  /\ [][PutStep =>
          LET k   == last'.key
              old == EntrySet(history, k)
              new == EntrySet(history', k)
              plain == ~Val(last'.arg).IsDraft /\ ~Val(last'.arg).IsSys
          IN  /\ config.rev = 0 => new = old
              /\ (config.rev # 0 /\ plain) => last'.rev \in HistoryRevs(history', k)
              /\ config.rev = -1 => old \subseteq new]_vars
  /\ [][(\E k \in titles : ~(EntrySet(history, k) \subseteq EntrySet(history', k)))
          => last'.op \in {"Put", "Delete"}]_vars

\* the server was restarted with another -rev while the store held a current
\* value and history entries, and a Put followed
C20_Witness ==
  /\ PlainPutDone
  /\ config.starts > 1
  /\ config.rev = 0
  /\ HistoryEntries(history, last.key) # {}

\* the call of p has returned and was a call of op
Returned(p, op) == procs[p].op = op /\ procs[p].pc = "idle"

\* the latest calls of p and q were executing at the same time
Overlap(p, q) ==
  /\ <<q, procs[q].n>> \in procs[p].with
  /\ <<p, procs[p].n>> \in procs[q].with

\* p and q have both returned from Puts that ran concurrently
ConcurrentPutsDone(p, q) ==
  /\ p # q
  /\ Returned(p, "Put") /\ procs[p].err = NoErr
  /\ Returned(q, "Put") /\ procs[q].err = NoErr
  /\ Overlap(p, q)

\* C16: in the sqlite backend two concurrent Puts of one key (no Delete
\* involved) never compute the same next revision: they return two different
\* revisions.
C16_SqliteConcurrentPutsDiffer ==
  \A p, q \in Procs :
    (backend = "sqlite" /\ ConcurrentPutsDone(p, q) /\ txlog.deletes = 0)
      => procs[p].ret # procs[q].ret

\* C17 as claimed: in the bbolt backend, whatever calls run concurrently on
\* the key, two concurrent Puts return different revisions.
C17_BoltConcurrentPutsDiffer ==
  \A p, q \in Procs :
    (backend = "bbolt" /\ ConcurrentPutsDone(p, q))
      => procs[p].ret # procs[q].ret

\* C17 as amended: in the bbolt backend every call is one transaction, so for
\* any interleaving the Puts committed since the last committed Delete were
\* assigned the consecutive revisions 2, 3, ... in commit order, two Puts
\* with no Delete committed between them return different revisions, and a
\* Get returns ErrNotFound or the metadata/body pair one single Put wrote.
C17_BoltTransactionsSerialize ==
  backend = "bbolt" =>
    /\ \A i \in DOMAIN txlog.since : txlog.since[i] = i + 1
    /\ \A p, q \in Procs :
         (/\ p # q
          /\ procs[p].op = "Put" /\ procs[p].pc \in {"done", "idle"}
          /\ procs[q].op = "Put" /\ procs[q].pc \in {"done", "idle"}
          /\ procs[p].epoch = procs[q].epoch)
           => procs[p].ret # procs[q].ret
    /\ \A p \in Procs :
         (procs[p].op = "Get" /\ procs[p].pc \in {"done", "idle"}) =>
           \/ procs[p].err = ErrNotFound /\ IsNil(procs[p].res)
           \/ /\ procs[p].err = NoErr
              /\ ~IsNil(procs[p].res)
              /\ \E w \in txlog.pairs :
                   Val(procs[p].res) = NewTiddler(w[1], Some(w[2]))

\* in bbolt a Get ran concurrently with a Put, after two different documents
\* had been put, and returned a tiddler
C17_Witness ==
  /\ backend = "bbolt"
  /\ Cardinality(txlog.pairs) >= 2
  /\ Len(txlog.since) >= 2
  /\ \E p, q \in Procs :
       /\ p # q /\ Overlap(p, q)
       /\ Returned(p, "Put")
       /\ Returned(q, "Get") /\ ~IsNil(procs[q].res)

\* the larger of two revisions
Larger(a, b) == IF a >= b THEN a ELSE b

\* C18: in the flatFile backend, once two concurrent Puts of one key have
\* both returned (no other call ran concurrently with either), the revision
\* in the key's stored metadata is the larger of the two revisions returned.
C18_FlatLargerRevisionStored ==
  \A p, q \in Procs :
    (/\ backend = "flatFile"
     /\ ConcurrentPutsDone(p, q)
     /\ procs[p].key = procs[q].key
     /\ procs[p].with = {<<q, procs[q].n>>}
     /\ procs[q].with = {<<p, procs[p].n>>})
      => RevisionOf(tiddlers[MetaName(procs[p].key)])
           = Larger(procs[p].ret, procs[q].ret)

\* no two rows of table t agree on what Id gives for them
UniqueOn(t, Id(_)) ==
  \A i, j \in 1..Len(t) : i # j => Id(t[i]) # Id(t[j])

\* the title of a row
TitleOfRow(r) == r.title

\* the title and revision of a row
RevisionOfRow(r) == <<r.title, r.revision>>

\* C21: in the sqlite backend, in every state reachable by Put, Delete and
\* SetMaxHistory calls, table tiddler holds at most one row per title and
\* table tiddler_history at most one row per (title, revision).
C21_SqliteRowsUnique ==
  backend = "sqlite" =>
    /\ UniqueOn(tiddlers, TitleOfRow)
    /\ UniqueOn(history, RevisionOfRow)

\* the registry after the step is the registry before it
ListUnchanged == backendlist' = backendlist

\* the registry after the step is the registry before it and one more
\* mapping, from the lower-case form of nameo to nameo and fn
ListExtended(nameo, fn) ==
  /\ ToLower(nameo) \notin DOMAIN backendlist
  /\ DOMAIN backendlist' = DOMAIN backendlist \cup {ToLower(nameo)}
  /\ \A n \in DOMAIN backendlist : backendlist'[n] = backendlist[n]
  /\ backendlist'[ToLower(nameo)] = TiddlerBackend(nameo, fn)

\* C22 as claimed: RegBackend(name, fn) for a registered name fails with
\* ErrDBExist and leaves the registry unchanged; for a fresh name it succeeds
\* and adds exactly that one mapping.
C22_RegBackendFailsOnlyWithExist ==
  [][last'.op = "RegBackend" =>
       IF ToLower(last'.key) \in DOMAIN backendlist
       THEN last'.err = ErrDBExist /\ ListUnchanged
       ELSE /\ last'.err = NoErr
            /\ ~IsNil(last'.arg)
            /\ ListExtended(last'.key, Val(last'.arg))]_vars

\* C22 as amended: RegBackend(name, fn) with a nil fn fails with
\* ErrDBNotExist, registered name or not; with a constructor fn it fails with
\* ErrDBExist for a name that is registered (names compared in lower case)
\* and succeeds for a fresh name, adding exactly that one mapping.  A call
\* that fails leaves the registry unchanged, so the constructor registered
\* first stays.
C22_RegBackendKeepsFirst ==
  [][last'.op = "RegBackend" =>
       IF IsNil(last'.arg)
       THEN last'.err = ErrDBNotExist /\ ListUnchanged
       ELSE IF ToLower(last'.key) \in DOMAIN backendlist
       THEN last'.err = ErrDBExist /\ ListUnchanged
       ELSE /\ last'.err = NoErr
            /\ ListExtended(last'.key, Val(last'.arg))]_vars

\* a name was registered again with another constructor, the call failed
\* with ErrDBExist and the first constructor is still the one registered
C22_Witness ==
  /\ last.op = "RegBackend"
  /\ last.err = ErrDBExist
  /\ ToLower(last.key) \in DOMAIN backendlist
  /\ backendlist[ToLower(last.key)].Open # Val(last.arg)
  /\ backendlist[ToLower(last.key)].Name # last.key

\* C23: store.Open(name, dataSource) fails with ErrDBNotExist and calls no
\* constructor when name is not registered (the empty name included); when
\* name is registered it calls exactly the constructor registered under that
\* name, with dataSource, and returns what the constructor returns.
C23_OpenDelegatesToRegistered ==
  [][last'.op = "store.Open" =>
       IF ToLower(last'.key) \notin DOMAIN backendlist
       THEN /\ last'.err = ErrDBNotExist
            /\ IsNil(last'.res)
            /\ opened' = opened
       ELSE \E fn \in {backendlist[ToLower(last'.key)].Open} :
              /\ opened' = Append(opened, <<fn, Val(last'.arg)[1]>>)
              /\ \E r \in {Construct(fn, Val(last'.arg)[1], Val(last'.arg)[2])} :
                   last'.res = r.res /\ last'.err = r.err]_vars

\* Open was called with the empty name while backends are registered and
\* failed with ErrDBNotExist, after an Open with the name of a registered
\* backend had called its constructor
C23_Witness ==
  /\ last.op = "store.Open"
  /\ last.key = <<>>
  /\ last.err = ErrDBNotExist
  /\ DOMAIN backendlist # {}
  /\ Len(opened) >= 1
  /\ backend \in Backends

\* a revision lookup for title last.key has returned
LookupDone == last.op \in {"GetRevision", "getLastRevision"}

\* the stored metadata of title key parses and has a revision member
HasRevision(key) ==
  \E meta \in {StoredMeta(tiddlers, key)} :
    /\ ~IsNil(meta)
    /\ Parses(Val(meta))
    /\ "revision" \in DOMAIN Unmarshal(Val(meta))

\* C24: Tiddler.GetRevision and each backend's getLastRevision return the
\* revision member of the stored metadata when it is present and parseable,
\* and 1 when the metadata has no revision member, does not parse or is
\* missing.
C24_RevisionLookupDefaultsToOne ==
  LookupDone =>
    last.rev = IF HasRevision(last.key)
               THEN Unmarshal(Val(StoredMeta(tiddlers, last.key)))["revision"]
               ELSE 1

\* the text of a tiddler: the text member of its Js, or of its Meta bytes
\* when it has no Js
TiddlerText(t) ==
  IF ~IsNil(t.Js) THEN TextOf(Val(t.Js)) ELSE TextOf(Unmarshal(Val(t.Meta)))

\* C25: for every tiddler t with non-nil text, NewTiddler of the bytes that
\* t.MarshalJSON() returns is a tiddler with the same Key, the same revision
\* as reported by GetRevision, and the same text as t.
C25_DecodeEncodeRoundTrip ==
  last.op = "NewTiddler" =>
    \E t \in {Val(last.arg)} : \E d \in {Val(last.res)} :
      /\ d.Key = t.Key
      /\ GetRevision(d) = GetRevision(t)
      /\ TiddlerText(d) = TiddlerText(t)

\* C26: in each backend a Put or Delete of title k leaves the current value
\* of every other title k' as it was: Get(k') returns the same metadata, body
\* and revision, or the same error, before and after.
C26_OtherTitlesCurrentValueUnchanged ==
  [][last'.op \in {"Put", "Delete"} =>
       \A k \in titles \ {last'.key} :
         StoreGet(tiddlers', k) = StoreGet(tiddlers, k)]_vars


\* C27: Put is all-or-nothing: in each backend, when one write of the call
\* fails and Put(k) returns an error, Get(k) returns what it returned before
\* the call (metadata, body and revision) and the history entries of k are
\* the ones there were before.
C27_FailedPutChangesNothing ==
  [][(last'.op = "Put" /\ last'.err # NoErr) =>
       /\ StoreGet(tiddlers', last'.key) = StoreGet(tiddlers, last'.key)
       /\ EntrySet(history', last'.key) = EntrySet(history, last'.key)]_vars


\* C28: in every reachable state of each backend, every history entry stored
\* for a key has a revision not greater than the key's current revision, and
\* in bbolt and sqlite a key with no current value has no history entries.
C28_HistoryWithinCurrentRevision ==
  \A k \in titles :
    /\ Present(tiddlers, k) =>
         \A r \in HistoryRevs(history, k) : r <= CurrentRevision(tiddlers, k)
    /\ (backend \in {"bbolt", "sqlite"} /\ ~Present(tiddlers, k)) =>
         HistoryEntries(history, k) = {}


\* C29: after a Delete(key) that returns no error, in bbolt (whatever
\* maxHistory is) and in sqlite (maxHistory other than 0) no history entry of
\* key remains; in flatFile a Delete(key) leaves every history entry of key,
\* and the whole history directory, as it was.
C29_DeleteHistoryPerBackend ==
  [][last'.op = "Delete" =>
       /\ (backend = "bbolt" /\ last'.err = NoErr) =>
            HistoryEntries(history', last'.key) = {}
       /\ (backend = "sqlite" /\ maxRev # 0 /\ last'.err = NoErr) =>
            HistoryEntries(history', last'.key) = {}
       /\ backend = "flatFile" =>
            /\ EntrySet(history', last'.key) = EntrySet(history, last'.key)
            /\ history' = history]_vars

\* a Delete in flatFile removed a current value that two Puts had written,
\* and the history entries of the key are still there
C29_Witness ==
  /\ last.op = "Delete" /\ last.err = NoErr
  /\ backend = "flatFile"
  /\ ~Present(tiddlers, last.key)
  /\ removed[last.key] > 2
  /\ Cardinality(HistoryEntries(history, last.key)) > 1


\* C30: in bbolt the trimming of a Put(k) and the purge of a Delete(k) delete
\* history entries of k only: the history entries of every other title k' are
\* the same after the call as before it.
C30_BoltHistoryOfOtherTitlesUnchanged ==
  [][(backend = "bbolt" /\ last'.op \in {"Put", "Delete"}) =>
       \A k \in titles \ {last'.key} :
         EntrySet(history', k) = EntrySet(history, k)]_vars


\* C31: in each backend and for every key, system keys included, a Delete of
\* a key that has a current value reports an error only when it removed
\* nothing (Get returns afterwards what it returned before), and it reports
\* no error unless the storage refused a deletion.
C31_DeleteErrorMeansNotRemoved ==
  [][(last'.op = "Delete" /\ Present(tiddlers, last'.key)) =>
       /\ last'.err # NoErr =>
            StoreGet(tiddlers', last'.key) = StoreGet(tiddlers, last'.key)
       /\ last'.err \in {NoErr, ErrDelete}]_vars


\* C32: in flatFile, when two Puts of one non-system key ran concurrently
\* (with no other call) and both have returned, the stored .meta file and the
\* stored .tid file are the metadata and the body of one and the same Put.
C32_FlatMetaAndBodyFromOnePut ==
  \A p, q \in Procs :
    (/\ backend = "flatFile"
     /\ ConcurrentPutsDone(p, q)
     /\ procs[p].key = procs[q].key
     /\ ~Val(procs[p].arg).IsSys
     /\ procs[p].with = {<<q, procs[q].n>>}
     /\ procs[q].with = {<<p, procs[p].n>>})
      => \E c \in {p, q} :
           /\ tiddlers[MetaName(procs[c].key)]
                = Marshal(DelField(FlatData(c), "text"))
           /\ tiddlers[TextName(procs[c].key)] = TextOf(FlatData(c))


\* this step serves a request (it is not a step of the clock, the cleaner
\* or main)
RequestStep == now' = now /\ cleaner' = cleaner /\ config' = config

\* the request served in this step is one that checkAuth guards
GuardedStep ==
  /\ RequestStep
  /\ \/ answer'.handler \in {"tiddler", "index"} /\ answer'.method = "PUT"
     \/ answer'.handler = "remove" /\ answer'.method = "DELETE"

\* the session table c holds a session with a uid for the cookie
LoggedIn(c, cookie) ==
  /\ GetSID(cookie).err = NoErr
  /\ GetSID(cookie).sid \in DOMAIN c
  /\ IsLogin(c[GetSID(cookie).sid])

C34_CleanerRemovesOnlyExpired ==
  [][(/\ cleaner.pc = "delete" /\ cleaner'.pc # "delete"
      /\ cleaner.sid \in DOMAIN clients)
       => Expired(clients[cleaner.sid], now)]_vars

\* C35: a PUT or DELETE request whose cookie names a session that has not
\* been accessed for longer than SessionTimeout is answered 403 and does not
\* extend the session.
C35_ExpiredSessionRejected ==
  [][(/\ GuardedStep
      /\ answer'.handler \in {"tiddler", "remove"}
      /\ GetSID(answer'.cookie).err = NoErr
      /\ GetSID(answer'.cookie).sid \in DOMAIN clients
      /\ Expired(clients[GetSID(answer'.cookie).sid], now))
       => /\ answer'.status = StatusForbidden
          /\ answer'.call = "none"
          /\ \/ GetSID(answer'.cookie).sid \notin DOMAIN clients'
             \/ clients'[GetSID(answer'.cookie).sid].t
                  = clients[GetSID(answer'.cookie).sid].t]_vars

C37_DeleteOfAbsentKeyChangesNothing ==
  [][(last'.op = "Delete" /\ ~Present(tiddlers, last'.key)) =>
       /\ last'.err = NoErr
       /\ tiddlers' = tiddlers
       /\ history' = history]_vars


\* C38: when StoreDb.Get finds no current value for the key, the GET tiddler
\* handler does not log an error and does not answer 500 Internal Server
\* Error.
C38_NotFoundIsNotInternalError ==
  (/\ answer.handler = "tiddler" /\ answer.method = "GET"
   /\ last.op = "Get" /\ last.err = ErrNotFound)
    => (~answer.logged /\ answer.status # StatusInternalServerError)


\* C39: the PUT handler passes to Put the request JSON with IsDraft true
\* exactly when the JSON has an object member "fields" with an entry
\* "draft.of", and IsSys true exactly when the key of the URL starts with
\* "$:/"; and a PUT with one of the flags true adds no history entry.
C39_PutHandlerDerivesFlags ==
  [][PutStep =>
       \E buf \in Bodies(last'.key) :
         /\ Val(last'.arg).Key = last'.key
         /\ Val(last'.arg).Js = Some(SetField(Unmarshal(buf), "bag", "bag"))
         /\ Val(last'.arg).IsDraft =
              (/\ "fields" \in DOMAIN Unmarshal(buf)
               /\ "draft.of" \in DOMAIN Unmarshal(buf)["fields"])
         /\ Val(last'.arg).IsSys =
              (/\ Len(last'.key) >= 3
               /\ SubSeq(last'.key, 1, 3) = <<"$", ":", "/">>)
         /\ (Val(last'.arg).IsDraft \/ Val(last'.arg).IsSys) =>
              \A k \in Keys :
                /\ EntrySet(history', k) \subseteq EntrySet(history, k)
                /\ Cardinality(HistoryEntries(history', k))
                     <= Cardinality(HistoryEntries(history, k))]_vars

\* history is kept; the last request was the PUT of a draft over a title
\* that has history entries, and a system title put before it has none
C39_Witness ==
  /\ PutDone /\ maxRev # 0
  /\ Val(last.arg).IsDraft /\ ~Val(last.arg).IsSys
  /\ "fields" \in DOMAIN Val(Val(last.arg).Js)
  /\ HistoryEntries(history, last.key) # {}
  /\ \E k \in Keys :
       /\ HasPrefix(k, SysPrefix) /\ Present(tiddlers, k)
       /\ HistoryEntries(history, k) = {}

====
